---- MODULE Spec2Model ----
(***************************************************************************)
(* Reaction instantiation and reconciliation engine of OpenChemIE          *)
(* (src/app/core/utils.py): process_tables, get_atoms_and_bonds,           *)
(* find_relevant_groups, get_replaced_reaction, clean_corefs and backout.  *)
(*                                                                         *)
(* Python strings are modelled as sequences of one-character strings so    *)
(* that the regular expressions, the substring tests and str.replace are   *)
(* computed character by character.  Python dicts are records, Python      *)
(* lists are sequences; a list that sits where a dict is expected (the     *)
(* nested condition lists written by process_tables) is the record         *)
(* [list |-> <<...>>], so that type(x) == list is "list" \in DOMAIN x.     *)
(* Positions are 1-based.                                                  *)
(***************************************************************************)
EXTENDS Integers, Sequences, FiniteSets, TLC

\* figures, results, coref_results: the arguments of process_tables and backout
\* final_results: what backout returned;  coref_parsed: what clean_corefs
\* returned for each index during backout;  match_oracle: the matching service
\* that answered during backout
\* sent_graphs: the graph copies handed to the structure service by the last
\* process_tables call, per figure and row;  pre_results: results as they were
\* before that call;  runs: the number of process_tables calls so far
\* pc: "ready", "raised" (process_tables ended with an exception), "done"
VARIABLES figures, results, coref_results, final_results, coref_parsed,
          match_oracle, sent_graphs, pre_results, runs, pc

\* The extraction service (src/app/api): task_queue is the queue.Queue of the
\* service, task_status the shared status dict, workers the state of each
\* worker thread (pc, the task it holds, the batch that task belongs to)
\* request: the request the event loop is serving ("none", the submit_task
\* call that has enqueued task `id` and not yet registered it, or the batch
\* upload that is walking its files)
\* next_id: the number of ids handed out;  now: the clock, in hours
\* uploads, result_files: the files in the upload and results folders
\* cleanup_log: the last cleanup call (force, the ids tracked before it, count)
VARIABLES task_queue, task_status, workers, request, next_id, now, uploads,
          result_files, cleanup_log

engine_vars == <<figures, results, coref_results, final_results, coref_parsed,
                 match_oracle, sent_graphs, pre_results, runs, pc>>

service_vars == <<task_queue, task_status, workers, request, next_id, now,
                  uploads, result_files, cleanup_log>>

vars == <<figures, results, coref_results, final_results, coref_parsed,
          match_oracle, sent_graphs, pre_results, runs, pc,
          task_queue, task_status, workers, request, next_id, now, uploads,
          result_files, cleanup_log>>

\* ------------------------------------------------------------------ bounds
MaxTemplates == 2
MaxRuns == 3
\* submissions, cleanup calls, and the hours the clock runs
MaxTasks == 2
MaxCleanups == 1
\* batch uploads that are registered
MaxBatches == 1
\* extractions that end while the queue is watched filling up
MaxReturns == 2
MaxClock == 48

\* ------------------------------------------------------------- characters
Letters ==
  {"a","b","c","d","e","f","g","h","i","j","k","l","m","n","o","p","q","r",
   "s","t","u","v","w","x","y","z","A","B","C","D","E","F","G","H","I","J",
   "K","L","M","N","O","P","Q","R","S","T","U","V","W","X","Y","Z"}
Digits == {"0","1","2","3","4","5","6","7","8","9"}

\* \w of Python's re (ASCII part)
WordChars == Letters \cup Digits \cup {"_"}
IsWord(c) == c \in WordChars
\* [\w-]
WordOrDashChars == WordChars \cup {"-"}
\* [\w\d\.]
LabelChars == WordChars \cup {"."}
\* [\[\]\w\d-]
GroupChars == WordChars \cup {"[", "]", "-"}
\* [ ]
SpaceChars == {" "}

\* Python's None where a string is expected
None == <<"<None>">>
\* the value of a regular expression that did not match
NoMatch == <<"<NoMatch>">>

\* s[a..b] (1-based, inclusive), empty when a > b
Slice(s, a, b) == IF a > b THEN <<>> ELSE SubSeq(s, a, b)

\* c in s, for a one-character c
Contains(s, c) == \E k \in 1..Len(s) : s[k] = c

\* s.replace(c, d) for one-character c and d
Replace(s, c, d) == [k \in 1..Len(s) |-> IF s[k] = c THEN d ELSE s[k]]

\* sub in s (substring test)
HasSubstring(s, sub) ==
  \E a \in 0..(Len(s) - Len(sub)) : Slice(s, a + 1, a + Len(sub)) = sub

\* the last position of the maximal run of characters in chars that starts
\* at position i (i - 1 when s[i] is not in chars or i is past the end)
RunEnd(s, i, chars) ==
  CHOOSE j \in (i-1)..Len(s) :
    /\ \A k \in i..j : s[k] \in chars
    /\ (j < Len(s) => s[j+1] \notin chars)

\* --------------------------------------------- r_group_pattern (line 123)
\* ^(\w+-)?(?P<group>[\w-]+)( \(\w+\))?$   applied with re.match.
\* The group cannot hold a space or a parenthesis, so the body is the maximal
\* run of [\w-] from the start; what follows is empty or " (" \w+ ")".
RGroupSuffixOk(text, n) ==
  \/ n = Len(text)
  \/ /\ Len(text) >= n + 4
     /\ text[n+1] = " "
     /\ text[n+2] = "("
     /\ text[Len(text)] = ")"
     /\ \A k \in (n+3)..(Len(text)-1) : IsWord(text[k])

\* faulty variant: the prefix group of the pattern not optional, ^(\w+-)(?P<group>...
RGroupPattern_PrefixRequired(text) ==
  LET n == RunEnd(text, 1, WordOrDashChars)
      m == RunEnd(text, 1, WordChars)
  IN  IF n = 0 \/ ~RGroupSuffixOk(text, n) THEN NoMatch
      ELSE IF m >= 1 /\ m + 1 < n /\ text[m+1] = "-"
           THEN Slice(text, m + 2, n)
           ELSE NoMatch

\* The value of found.group('group'), or NoMatch when found is None.
RGroupPattern(text) ==
  LET n == RunEnd(text, 1, WordOrDashChars)
      m == RunEnd(text, 1, WordChars)
  IN  IF n = 0 \/ ~RGroupSuffixOk(text, n) THEN NoMatch
      ELSE IF m >= 1 /\ m + 1 < n /\ text[m+1] = "-"
           THEN Slice(text, m + 2, n)      \* optional prefix \w+- taken
           ELSE Slice(text, 1, n)

\* ----------------------------------------- clean_corefs pattern (line 325)
\* (?P<label>[\w\d\.]+[abc]?)[,:]?[ ]+(?P<group>[\[\]\w\d-]+)  with finditer.
\* A match that starts at position p: the maximal label run, an optional
\* comma or colon, at least one space, the maximal group run.
CorefMatchAt(text, p) ==
  LET e1 == RunEnd(text, p, LabelChars)
      e2 == IF e1 < Len(text) /\ text[e1+1] \in {",", ":"} THEN e1 + 1 ELSE e1
      e3 == RunEnd(text, e2 + 1, SpaceChars)
      e4 == RunEnd(text, e3 + 1, GroupChars)
  IN  IF e1 >= p /\ e3 > e2 /\ e4 > e3
      THEN [ok |-> TRUE, label |-> Slice(text, p, e1),
            group |-> Slice(text, e3 + 1, e4), end |-> e4]
      ELSE [ok |-> FALSE, label |-> <<>>, group |-> <<>>, end |-> p]

\* dict[key] = value on a dict kept as a function
DictPut(d, key, value) ==
  [k \in DOMAIN d \cup {key} |-> IF k = key THEN value ELSE d[k]]

\* faulty variant: patt.search instead of patt.finditer, the first match only
RECURSIVE CorefFindIter_FirstOnly(_, _, _)
CorefFindIter_FirstOnly(text, p, acc) ==
  IF p > Len(text) THEN acc
  ELSE LET f == CorefMatchAt(text, p)
       IN  IF f.ok THEN [k \in DOMAIN acc \cup {f.label} |->
                           IF k = f.label THEN f.group ELSE acc[k]]
           ELSE CorefFindIter_FirstOnly(text, p + 1, acc)

\* finditer from position p on, each match written into coref_smiles
RECURSIVE CorefFindIter(_, _, _)
CorefFindIter(text, p, acc) ==
  IF p > Len(text) THEN acc
  ELSE LET f == CorefMatchAt(text, p)
       IN  IF f.ok THEN CorefFindIter(text, f.end + 1, DictPut(acc, f.label, f.group))
           ELSE CorefFindIter(text, p + 1, acc)

EmptyDict == [k \in {} |-> <<>>]

RECURSIVE CorefSmilesOf(_, _, _)
CorefSmilesOf(texts, k, acc) ==
  IF k > Len(texts) THEN acc
  ELSE CorefSmilesOf(texts, k + 1, CorefFindIter(texts[k], 1, acc))

\* ------------------------------------------------------------ dict helpers
\* d[key] = value on a dict kept as a record (the key is added when missing)
SetField(d, key, value) ==
  [k \in DOMAIN d \cup {key} |-> IF k = key THEN value ELSE d[k]]

\* the concatenation of the sequences seqs[k], seqs[k+1], ...
RECURSIVE FlattenSeq(_, _)
FlattenSeq(seqs, k) ==
  IF k > Len(seqs) THEN <<>> ELSE seqs[k] \o FlattenSeq(seqs, k + 1)

\* type(x) == list, for x an element of a reaction's entity list
IsList(x) == "list" \in DOMAIN x
ListOf(s) == [list |-> s]

MolCat == "[Mol]"
TxtCat == "[Txt]"
TableCat == "[Table]"
AlkylGroupTag == "alkyl group"

\* order of reaction.items()
ReactionKeys == <<"reactants", "conditions", "products">>

\* ----------------------------------------- BOND_TO_INT (lines 14-22)
BOND_TO_INT(bond_type) ==
  CASE bond_type = "" -> 0
    [] bond_type = "single" -> 1
    [] bond_type = "double" -> 2
    [] bond_type = "triple" -> 3
    [] bond_type = "aromatic" -> 4
    [] bond_type = "solid wedge" -> 5
    [] bond_type = "dashed wedge" -> 6

\* ------------------------------------- get_atoms_and_bonds (lines 168-199)
\* The recogniser's answer for a crop is read from the figure image: image[bbox]
\* is [atoms |-> <<[atom_symbol, x, y], ...>>, bonds |-> <<[endpoint_atoms,
\* bond_type], ...>>].  Bonds are written in order, the later one winning.
\* faulty variant: line 198 dropped, a bond is written at [i][j] only
RECURSIVE EdgesOf_OneDirection(_, _, _)
EdgesOf_OneDirection(edges, bonds, k) ==
  IF k > Len(bonds) THEN edges
  ELSE LET i == bonds[k].endpoint_atoms[1]
           j == bonds[k].endpoint_atoms[2]
           v == BOND_TO_INT(bonds[k].bond_type)
       IN  EdgesOf_OneDirection([edges EXCEPT ![i][j] = v], bonds, k + 1)

RECURSIVE EdgesOf(_, _, _)
EdgesOf(edges, bonds, k) ==
  IF k > Len(bonds) THEN edges
  ELSE LET i == bonds[k].endpoint_atoms[1]
           j == bonds[k].endpoint_atoms[2]
           v == BOND_TO_INT(bonds[k].bond_type)
           e1 == [edges EXCEPT ![i][j] = v]
           e2 == [e1 EXCEPT ![j][i] = v]
       IN  EdgesOf(e2, bonds, k + 1)

GraphOf(mol, key, i, bbox) ==
  LET n == Len(mol.atoms)
  IN  [image |-> bbox,
       chartok_coords |->
         [coords |-> [a \in 1..n |-> <<mol.atoms[a].x, mol.atoms[a].y>>],
          symbols |-> [a \in 1..n |-> mol.atoms[a].atom_symbol]],
       edges |-> EdgesOf([a \in 1..n |-> [b \in 1..n |-> 0]], mol.bonds, 1),
       key |-> <<key, i>>]

\* the graphs of the '[Mol]' dict entities of one key, in list order
RECURSIVE GraphsOfKey(_, _, _, _)
GraphsOfKey(image, key, molecules, i) ==
  IF i > Len(molecules) THEN <<>>
  ELSE LET elt == molecules[i]
           rest == GraphsOfKey(image, key, molecules, i + 1)
       IN  IF IsList(elt) \/ elt.category # MolCat THEN rest
           ELSE <<GraphOf(image[elt.bbox], key, i, elt.bbox)>> \o rest

get_atoms_and_bonds(image, reaction) ==
  GraphsOfKey(image, ReactionKeys[1], reaction[ReactionKeys[1]], 1)
    \o GraphsOfKey(image, ReactionKeys[2], reaction[ReactionKeys[2]], 1)
    \o GraphsOfKey(image, ReactionKeys[3], reaction[ReactionKeys[3]], 1)

\* ------------------------------------- find_relevant_groups (lines 201-210)
Bracketed(text) == <<"[">> \o text \o <<"]">>

\* atom[1:-1]
StripEnds(atom) == Slice(atom, 2, Len(atom) - 1)

RECURSIVE LocsOfSymbols(_, _, _)
LocsOfSymbols(symbols, r_groups, j) ==
  IF j > Len(symbols) THEN <<>>
  ELSE (IF symbols[j] \in r_groups THEN << <<StripEnds(symbols[j]), j>> >> ELSE <<>>)
         \o LocsOfSymbols(symbols, r_groups, j + 1)

find_relevant_groups(graphs, columns) ==
  LET r_groups == {Bracketed(columns[c].text) :
                     c \in {c \in 1..Len(columns) : columns[c].tag = AlkylGroupTag}}
  IN  [i \in 1..Len(graphs) |->
         LocsOfSymbols(graphs[i].chartok_coords.symbols, r_groups, 1)]

\* ----------------- molscribe.convert_graph_to_output (called at line 249)
\* The structure service is outside the repository.  It is stood in for by a
\* deterministic service: a placeholder label, bracketed or bare, becomes the
\* wildcard atom, an element symbol is kept, a known abbreviation is expanded, and a graph
\* holding any other label gets the invalid-structure sentinel.  The string is
\* the service's own rendering of the graph: it need not be the string the
\* reaction detector attached to the molecule (for carbon bound to ruthenium the
\* detector writes "C[Ru]", the service "CRu").
InvalidSmiles == <<"<", "i", "n", "v", "a", "l", "i", "d", ">">>

IsBracketed(sym) == Len(sym) >= 2 /\ sym[1] = "[" /\ sym[Len(sym)] = "]"

SymbolSmiles(sym) ==
  CASE IsBracketed(sym) \/ sym \in {<<"R">>, <<"A", "r">>} -> <<"*">>
    [] sym \in {<<"C">>, <<"N">>, <<"O">>, <<"C", "l">>, <<"B", "r">>,
                <<"R", "u">>} -> sym
    [] sym = <<"M", "e">> -> <<"C">>
    [] sym = <<"E", "t">> -> <<"C", "C">>
    [] sym = <<"P", "h">> -> <<"c", "1", "c", "c", "c", "c", "c", "1">>
    [] OTHER -> InvalidSmiles

RECURSIVE ConcatSmiles(_, _)
ConcatSmiles(symbols, k) ==
  IF k > Len(symbols) THEN <<>>
  ELSE SymbolSmiles(symbols[k]) \o ConcatSmiles(symbols, k + 1)

convert_graph_to_output(graph) ==
  LET symbols == graph.chartok_coords.symbols
  IN  IF \E k \in 1..Len(symbols) : SymbolSmiles(symbols[k]) = InvalidSmiles
      THEN [smiles |-> InvalidSmiles]
      ELSE [smiles |-> ConcatSmiles(symbols, 1)]

\* faulty variant: line 226 replaced by mappings.get(atom), a located atom without a
\* mapping entry is overwritten with None
RECURSIVE ReplaceSymbols_NoMembershipTest(_, _, _, _)
ReplaceSymbols_NoMembershipTest(symbols, atoms, k, mappings) ==
  IF k > Len(atoms) THEN symbols
  ELSE ReplaceSymbols_NoMembershipTest(
         [symbols EXCEPT ![atoms[k][2]] =
            IF atoms[k][1] \in DOMAIN mappings THEN mappings[atoms[k][1]] ELSE None],
         atoms, k + 1, mappings)

\* ------------------------------------ get_replaced_reaction (lines 212-252)
\* lines 224-227 for one graph: the located atoms are overwritten in list order
RECURSIVE ReplaceSymbols(_, _, _, _)
ReplaceSymbols(symbols, atoms, k, mappings) ==
  IF k > Len(atoms) THEN symbols
  ELSE LET atom == atoms[k][1]
           atom_idx == atoms[k][2]
       IN  ReplaceSymbols(
             IF atom \in DOMAIN mappings
             THEN [symbols EXCEPT ![atom_idx] = mappings[atom]]
             ELSE symbols,
             atoms, k + 1, mappings)

\* lines 213-227: graph_copy after the relabelling
GraphCopy(graphs, relevant_locs, mappings) ==
  [g \in 1..Len(graphs) |->
     [image |-> graphs[g].image,
      chartok_coords |->
        [coords |-> graphs[g].chartok_coords.coords,
         symbols |-> IF g \in DOMAIN relevant_locs
                     THEN ReplaceSymbols(graphs[g].chartok_coords.symbols,
                                         relevant_locs[g], 1, mappings)
                     ELSE graphs[g].chartok_coords.symbols],
      edges |-> graphs[g].edges,
      key |-> graphs[g].key]]

\* lines 229-246: a '[Mol]' dict is copied key by key, any other entity is
\* shared; the entities of a nested list are copied the same way
CopyEntities(v) ==
  [e \in 1..Len(v) |->
     IF IsList(v[e]) THEN ListOf([x \in 1..Len(v[e].list) |-> v[e].list[x]])
     ELSE v[e]]

\* entity['category'] on an entity that is itself a list raises TypeError
\* (line 230, reached from line 243 for a list nested in a list)
CopyRaises(orig_reaction) ==
  \E k \in 1..Len(ReactionKeys) :
    \E e \in 1..Len(orig_reaction[ReactionKeys[k]]) :
      LET entity == orig_reaction[ReactionKeys[k]][e]
      IN  IsList(entity) /\ \E x \in 1..Len(entity.list) : IsList(entity.list[x])

\* faulty variant: the loop of line 248 left after its first graph
RECURSIVE WriteSmiles_FirstGraphOnly(_, _, _)
WriteSmiles_FirstGraphOnly(reaction_copy, graph_copy, g) ==
  IF g > Len(graph_copy) \/ g > 1 THEN reaction_copy
  ELSE LET key == graph_copy[g].key[1]
           idx == graph_copy[g].key[2]
           output == convert_graph_to_output(graph_copy[g])
           molecule == SetField(reaction_copy[key][idx], "smiles", output.smiles)
       IN  WriteSmiles_FirstGraphOnly([reaction_copy EXCEPT ![key][idx] = molecule],
                                      graph_copy, g + 1)

\* lines 248-251: molecule['smiles'] = output[0]['smiles'] for every graph
RECURSIVE WriteSmiles(_, _, _)
WriteSmiles(reaction_copy, graph_copy, g) ==
  IF g > Len(graph_copy) THEN reaction_copy
  ELSE LET key == graph_copy[g].key[1]
           idx == graph_copy[g].key[2]
           output == convert_graph_to_output(graph_copy[g])
           molecule == SetField(reaction_copy[key][idx], "smiles", output.smiles)
       IN  WriteSmiles([reaction_copy EXCEPT ![key][idx] = molecule], graph_copy, g + 1)

\* faulty variant: lines 231-233 replaced by copy_list.append(entity), the
\* '[Mol]' dict of the copy being the original's own object
IsFreshCopy_Never(entity) == FALSE

\* lines 229-246: whether the entity of reaction_copy is a new object: a '[Mol]'
\* dict is rebuilt key by key, a nested list is rebuilt as sub_list, any other
\* entity is the original's own object
IsFreshCopy(entity) == IsList(entity) \/ entity.category = MolCat

\* lines 248-251 as the caller sees them: orig_reaction after the call.  The
\* write to molecule['smiles'] reaches the original only when the molecule of
\* the copy is the original's own object
RECURSIVE OrigAfterWrite(_, _, _)
OrigAfterWrite(orig_reaction, graph_copy, g) ==
  IF g > Len(graph_copy) THEN orig_reaction
  ELSE LET key == graph_copy[g].key[1]
           idx == graph_copy[g].key[2]
           entity == orig_reaction[key][idx]
           output == convert_graph_to_output(graph_copy[g])
       IN  OrigAfterWrite(
             IF IsFreshCopy(entity) THEN orig_reaction
             ELSE [orig_reaction EXCEPT ![key][idx] =
                     SetField(entity, "smiles", output.smiles)],
             graph_copy, g + 1)

\* lines 215-223: the fields of a graph's copy that are the original's own
\* objects; coords, symbols and edges are sliced ([:]) into new lists
SharedGraphFields == {"image", "key"}

\* lines 224-227 as the caller sees them: graphs after the call.  The
\* relabelling reaches the original only when the symbol list is shared
GraphsAfterRelabel(graphs, relevant_locs, mappings) ==
  IF "symbols" \in SharedGraphFields
  THEN GraphCopy(graphs, relevant_locs, mappings)
  ELSE graphs

get_replaced_reaction(orig_reaction, graphs, relevant_locs, mappings) ==
  LET graph_copy == GraphCopy(graphs, relevant_locs, mappings)
      reaction_copy == [k \in DOMAIN orig_reaction |-> CopyEntities(orig_reaction[k])]
  IN  WriteSmiles(reaction_copy, graph_copy, 1)

\* ------------------------------------------- process_tables (lines 122-165)
MinOf(a, b) == IF a < b THEN a ELSE b

\* lines 140-152, the alkyl-group columns of one row: r_groups, written in
\* column order over zip(columns, row)
RECURSIVE RowRGroups(_, _, _, _)
RowRGroups(columns, row, c, r_groups) ==
  IF c > MinOf(Len(columns), Len(row)) THEN r_groups
  ELSE LET found == RGroupPattern(row[c].text)
       IN  RowRGroups(columns, row, c + 1,
             IF columns[c].tag = AlkylGroupTag /\ found # NoMatch
             THEN DictPut(r_groups, columns[c].text, found)
             ELSE r_groups)

\* faulty variant: line 141 not testing the tag, a record for every column
RECURSIVE RowConditions_AllColumns(_, _, _, _)
RowConditions_AllColumns(columns, row, c, expanded_conditions) ==
  IF c > MinOf(Len(columns), Len(row)) THEN expanded_conditions
  ELSE RowConditions_AllColumns(columns, row, c + 1,
         Append(expanded_conditions,
                [category |-> TableCat, text |-> row[c].text,
                 tag |-> columns[c].tag, header |-> columns[c].text]))

\* lines 138-147, the other columns of one row: expanded_conditions
RECURSIVE RowConditions(_, _, _, _)
RowConditions(columns, row, c, expanded_conditions) ==
  IF c > MinOf(Len(columns), Len(row)) THEN expanded_conditions
  ELSE RowConditions(columns, row, c + 1,
         IF columns[c].tag # AlkylGroupTag
         THEN Append(expanded_conditions,
                     [category |-> TableCat, text |-> row[c].text,
                      tag |-> columns[c].tag, header |-> columns[c].text])
         ELSE expanded_conditions)

\* faulty variant: line 152 missing, replaced stays False
RowReplaced_NeverSet(columns, row) == FALSE

\* line 152: replaced is set as soon as one alkyl-group cell matches
RowReplaced(columns, row) ==
  \E c \in 1..MinOf(Len(columns), Len(row)) :
    columns[c].tag = AlkylGroupTag /\ RGroupPattern(row[c].text) # NoMatch

\* lines 153-160: the instance appended for a row that was replaced
RowInstance(orig_reaction, graphs, relevant_locs, columns, row) ==
  LET r_groups == RowRGroups(columns, row, 1, EmptyDict)
      reaction == get_replaced_reaction(orig_reaction, graphs, relevant_locs, r_groups)
  IN  [reactants |-> reaction.reactants,
       conditions |-> RowConditions(columns, row, 1, orig_reaction.conditions),
       products |-> reaction.products]

\* faulty variant: line 154 not testing replaced, an instance appended for every
\* row
RECURSIVE RowLoop_AlwaysAppend(_, _, _, _, _, _)
RowLoop_AlwaysAppend(orig_reaction, graphs, relevant_locs, content, k, st) ==
  IF k > Len(content.rows) THEN st
  ELSE LET row == content.rows[k]
           r_groups == RowRGroups(content.columns, row, 1, EmptyDict)
           graph_copy == GraphCopy(graphs, relevant_locs, r_groups)
           orig_after == OrigAfterWrite(orig_reaction, graph_copy, 1)
           called == [st EXCEPT !.reactions[1] = orig_after,
                                !.sent = Append(@, graph_copy)]
       IN  RowLoop_AlwaysAppend(orig_after,
             GraphsAfterRelabel(graphs, relevant_locs, r_groups),
             relevant_locs, content, k + 1,
             [called EXCEPT !.reactions =
                Append(@, RowInstance(orig_reaction, graphs, relevant_locs,
                                      content.columns, row))])

\* lines 136-162: the row loop; st = [reactions, conditions_to_extend, sent],
\* sent being the graphs handed to the structure service, one list per row
\* (line 153 runs for every row, replaced or not).  orig_reaction is
\* reactions[0] and graphs the list of line 133, each as the call of line 153
\* for the row before left them
RECURSIVE RowLoop(_, _, _, _, _, _)
RowLoop(orig_reaction, graphs, relevant_locs, content, k, st) ==
  IF k > Len(content.rows) THEN st
  ELSE LET row == content.rows[k]
           r_groups == RowRGroups(content.columns, row, 1, EmptyDict)
           graph_copy == GraphCopy(graphs, relevant_locs, r_groups)
           orig_after == OrigAfterWrite(orig_reaction, graph_copy, 1)
           called == [st EXCEPT !.reactions[1] = orig_after,
                                !.sent = Append(@, graph_copy)]
       IN  RowLoop(orig_after, GraphsAfterRelabel(graphs, relevant_locs, r_groups),
                   relevant_locs, content, k + 1,
             IF RowReplaced(content.columns, row)
             THEN [called EXCEPT !.reactions =
                     Append(@, RowInstance(orig_reaction, graphs, relevant_locs,
                                           content.columns, row))]
             ELSE [called EXCEPT !.conditions_to_extend =
                     Append(@, RowConditions(content.columns, row, 1,
                                             orig_reaction.conditions))])

\* faulty variant: lines 163-164 as conditions.extend(conditions_to_extend), the former
\* condition list not wrapped
WrapConditions_ExtendOnly(conditions, conditions_to_extend) ==
  conditions
    \o [e \in 1..Len(conditions_to_extend) |-> ListOf(conditions_to_extend[e])]

\* faulty variant: lines 163-164 extending the condition list without wrapping it
WrapConditions_NoWrap(conditions, conditions_to_extend) ==
  conditions \o FlattenSeq(conditions_to_extend, 1)

\* lines 163-164
WrapConditions(conditions, conditions_to_extend) ==
  <<ListOf(conditions)>>
    \o [e \in 1..Len(conditions_to_extend) |-> ListOf(conditions_to_extend[e])]

HasContent(figure) == "rows" \in DOMAIN figure.table.content

\* faulty variant: line 132 as orig_reaction = result['reactions'][-1]
RowLoopOf_LastReaction(figure, result) ==
  LET content == figure.table.content
      orig_reaction == result.reactions[Len(result.reactions)]
      graphs == get_atoms_and_bonds(figure.figure.image, orig_reaction)
      relevant_locs == find_relevant_groups(graphs, content.columns)
  IN  RowLoop(orig_reaction, graphs, relevant_locs, content, 1,
              [reactions |-> result.reactions,
               conditions_to_extend |-> <<>>,
               sent |-> <<>>])

\* the state of the row loop of lines 135-162 for one (figure, result) pair
RowLoopOf(figure, result) ==
  LET content == figure.table.content
      orig_reaction == result.reactions[1]
      graphs == get_atoms_and_bonds(figure.figure.image, orig_reaction)
      relevant_locs == find_relevant_groups(graphs, content.columns)
  IN  RowLoop(orig_reaction, graphs, relevant_locs, content, 1,
              [reactions |-> result.reactions,
               conditions_to_extend |-> <<>>,
               sent |-> <<>>])

\* the graphs handed to the structure service, one list per row
SentForFigure(figure, result) ==
  IF ~HasContent(figure) \/ Len(result.reactions) = 0 \/ CopyRaises(result.reactions[1])
  THEN <<>>
  ELSE RowLoopOf(figure, result).sent

\* whether the body of the loop of line 124 raises for this figure
FigureRaises(figure, result) ==
  /\ HasContent(figure)
  /\ Len(result.reactions) > 0
  /\ Len(figure.table.content.rows) > 0
  /\ CopyRaises(result.reactions[1])

\* lines 125-164 for one (figure, result) pair that does not raise
ProcessFigure(figure, result) ==
  LET paged == SetField(result, "page", figure.page)
  IN  IF ~HasContent(figure) \/ Len(result.reactions) = 0 THEN paged
      ELSE LET st == RowLoopOf(figure, result)
               orig_reaction == st.reactions[1]
           IN  [paged EXCEPT !.reactions =
                  [st.reactions EXCEPT ![1].conditions =
                     WrapConditions(orig_reaction.conditions, st.conditions_to_extend)]]

\* the figures are processed in order; an exception ends the call and leaves
\* the earlier results processed, the raising one with its page set
FirstRaise(figs, res) ==
  IF \E i \in 1..Len(figs) : FigureRaises(figs[i], res[i])
  THEN CHOOSE i \in 1..Len(figs) :
         /\ FigureRaises(figs[i], res[i])
         /\ \A j \in 1..(i-1) : ~FigureRaises(figs[j], res[j])
  ELSE 0

\* faulty variant: the return of line 165 indented into the loop of line 124,
\* only the first pair is processed
process_tables_ReturnInLoop(figs, res) ==
  LET r == FirstRaise(figs, res)
  IN  [i \in 1..Len(res) |->
         IF i > 1 THEN res[i]
         ELSE IF r = 1 THEN SetField(res[i], "page", figs[i].page)
         ELSE ProcessFigure(figs[i], res[i])]

process_tables(figs, res) ==
  LET r == FirstRaise(figs, res)
  IN  [i \in 1..Len(res) |->
         IF r = 0 \/ i < r THEN ProcessFigure(figs[i], res[i])
         ELSE IF i = r THEN SetField(res[i], "page", figs[i].page)
         ELSE res[i]]

\* ---------------------------------- replace_rgroups_in_figure (lines 83-120)
\* pattern of line 84:  (?P<name>[RXY]\d?)[ ]*=[ ]*(?P<group>\w+)
\* A match that starts at position p: one of R, X, Y, a digit when one follows,
\* spaces, the equals sign, spaces, the maximal run of word characters.
AssignMatchAt(text, p) ==
  LET e1 == IF p < Len(text) /\ text[p+1] \in Digits THEN p + 1 ELSE p
      e2 == RunEnd(text, e1 + 1, SpaceChars)
      e3 == RunEnd(text, e2 + 2, SpaceChars)
      e4 == RunEnd(text, e3 + 1, WordChars)
  IN  IF /\ text[p] \in {"R", "X", "Y"}
         /\ e2 < Len(text)
         /\ text[e2+1] = "="
         /\ e4 > e3
      THEN [ok |-> TRUE, name |-> Slice(text, p, e1), group |-> Slice(text, e3 + 1, e4)]
      ELSE [ok |-> FALSE, name |-> <<>>, group |-> <<>>]

\* pattern.search(text): the leftmost match
AssignSearch(text) ==
  LET starts == {p \in 1..Len(text) : AssignMatchAt(text, p).ok}
  IN  IF starts = {} THEN [ok |-> FALSE, name |-> <<>>, group |-> <<>>]
      ELSE AssignMatchAt(text, CHOOSE p \in starts : \A q \in starts : p <= q)

\* lines 90-99: the texts of one identifier box; r_groups holds the pairs
\* (name, group) in the order they were first seen
RECURSIVE TextsRGroups(_, _, _)
TextsRGroups(texts, t, r_groups) ==
  IF t > Len(texts) THEN r_groups
  ELSE LET res == AssignSearch(texts[t])
           seen_r_groups == {r_groups[n] : n \in 1..Len(r_groups)}
       IN  TextsRGroups(texts, t + 1,
             IF ~res.ok \/ <<res.name, res.group>> \in seen_r_groups THEN r_groups
             ELSE Append(r_groups, <<res.name, res.group>>))

\* lines 88-99: the boxes of one coreference record
RECURSIVE BboxesRGroups(_, _, _)
BboxesRGroups(bboxes, b, r_groups) ==
  IF b > Len(bboxes) THEN r_groups
  ELSE BboxesRGroups(bboxes, b + 1,
         IF bboxes[b].category = "[Idt]"
         THEN TextsRGroups(bboxes[b].text, 1, r_groups)
         ELSE r_groups)

\* line 101: the names seen
SeenNames(r_groups) == {r_groups[n][1] : n \in 1..Len(r_groups)}

\* faulty variant: line 108 as a test of the whole label against "[name]"
RECURSIVE LocsOfStripped_BracketsRequired(_, _, _)
LocsOfStripped_BracketsRequired(symbols, seen_r_groups, j) ==
  IF j > Len(symbols) THEN <<>>
  ELSE (IF IsBracketed(symbols[j]) /\ StripEnds(symbols[j]) \in seen_r_groups
        THEN << <<StripEnds(symbols[j]), j>> >> ELSE <<>>)
         \o LocsOfStripped_BracketsRequired(symbols, seen_r_groups, j + 1)

\* lines 106-109: the atoms of one graph whose label without its first and
\* last character is a name seen
RECURSIVE LocsOfStripped(_, _, _)
LocsOfStripped(symbols, seen_r_groups, j) ==
  IF j > Len(symbols) THEN <<>>
  ELSE (IF StripEnds(symbols[j]) \in seen_r_groups
        THEN << <<StripEnds(symbols[j]), j>> >> ELSE <<>>)
         \o LocsOfStripped(symbols, seen_r_groups, j + 1)

\* lines 104-110
relevant_locs_in_figure(graphs, seen_r_groups) ==
  [i \in 1..Len(graphs) |->
     LocsOfStripped(graphs[i].chartok_coords.symbols, seen_r_groups, 1)]

\* the graphs handed to the structure service, one list per r_group (line 113)
SentForCorefs(figure, result, corefs) ==
  LET r_groups == BboxesRGroups(corefs.bboxes, 1, <<>>)
  IN  IF r_groups = <<>> \/ result.reactions = <<>> THEN <<>>
      ELSE LET graphs == get_atoms_and_bonds(figure.figure.image, result.reactions[1])
               relevant_locs == relevant_locs_in_figure(graphs, SeenNames(r_groups))
           IN  [n \in 1..Len(r_groups) |->
                  GraphCopy(graphs, relevant_locs,
                            DictPut(EmptyDict, r_groups[n][1], r_groups[n][2]))]

\* lines 86-119 for one (figure, result, corefs) triple
ReplaceInFigure(figure, result, corefs) ==
  LET r_groups == BboxesRGroups(corefs.bboxes, 1, <<>>)
  IN  IF r_groups = <<>> \/ result.reactions = <<>> THEN result
      ELSE LET orig_reaction == result.reactions[1]
               graphs == get_atoms_and_bonds(figure.figure.image, orig_reaction)
               relevant_locs == relevant_locs_in_figure(graphs, SeenNames(r_groups))
           IN  [result EXCEPT !.reactions =
                  @ \o [n \in 1..Len(r_groups) |->
                          LET r_group == DictPut(EmptyDict, r_groups[n][1], r_groups[n][2])
                              reaction == get_replaced_reaction(orig_reaction, graphs,
                                                                relevant_locs, r_group)
                          IN  [reactants |-> reaction.reactants,
                               conditions |-> orig_reaction.conditions,
                               products |-> reaction.products]]]

\* zip(figures, results, coref_results) stops at the shortest of the three
replace_rgroups_in_figure(figs, res, corefs) ==
  [i \in 1..Len(res) |->
     IF i <= MinOf(Len(figs), Len(corefs))
     THEN ReplaceInFigure(figs[i], res[i], corefs[i])
     ELSE res[i]]

\* --------------------------------------------- clean_corefs (lines 311-332)
NoneValue == [none |-> TRUE]
IsNone(x) == "none" \in DOMAIN x

clean_corefs(coref_results_dict, idx) ==
  IF Len(coref_results_dict) < idx THEN NoneValue
  ELSE LET res == coref_results_dict[idx]
       IN  IF "mol_bboxes" \notin DOMAIN res THEN NoneValue
           ELSE IF "idt_bboxes" \notin DOMAIN res THEN NoneValue
           ELSE [mol_bboxes_text |->
                   IF "smiles" \in DOMAIN res.mol_bboxes[1]
                   THEN [b \in 1..Len(res.mol_bboxes) |->
                           <<res.mol_bboxes[b], res.mol_bboxes[b].smiles>>]
                   ELSE <<>>,
                 coref_smiles |->
                   CorefSmilesOf([b \in 1..Len(res.idt_bboxes) |-> res.idt_bboxes[b].text],
                                 1, EmptyDict),
                 bboxes |-> res.bboxes]

\* ---------------------------------------------------- backout (lines 496-547)
\* Chem.MolFromSmiles is outside the repository: a string holding a character
\* that no structure string holds (the sentinel's angle brackets) has no molecule
SmilesChars ==
  {"C", "N", "O", "B", "R", "c", "l", "r", "u", "1", "*", "[", "]", "(", ")", "="}
MolFromSmilesOk(smiles) ==
  smiles # <<>> /\ \A k \in 1..Len(smiles) : smiles[k] \in SmilesChars

\* mol.HasSubstructMatch(query) is outside the repository: the answers of the
\* matching service are one of three services, the last one a containment test
SubstructOracles == {"never", "always", "contains"}
HasSubstructMatch(oracle, mol, query) ==
  CASE oracle = "never" -> FALSE
    [] oracle = "always" -> TRUE
    [] oracle = "contains" -> HasSubstring(mol, query)

\* the condition of lines 506-508
IsConcreteProduct(rxn) ==
  /\ "smiles" \in DOMAIN rxn.products[1]
  /\ rxn.products[1].smiles # None
  /\ ~Contains(rxn.products[1].smiles, "*")
  /\ ~Contains(rxn.products[1].smiles, "R")

\* the condition of lines 523-525
IsWildcardProduct(rxn) ==
  /\ "smiles" \in DOMAIN rxn.products[1]
  /\ rxn.products[1].smiles # None
  /\ Contains(rxn.products[1].smiles, "*")

\* the condition of lines 530-532
IsCandidate(other_rxn) ==
  /\ "smiles" \in DOMAIN other_rxn.products[1]
  /\ other_rxn.products[1].smiles # None
  /\ ~Contains(other_rxn.products[1].smiles, "*")

\* lines 535-537
ProductsMatch(oracle, prod_smiles, other_prod_smiles) ==
  /\ MolFromSmilesOk(Replace(prod_smiles, "*", "C"))
  /\ MolFromSmilesOk(other_prod_smiles)
  /\ HasSubstructMatch(oracle, Replace(prod_smiles, "*", "C"), other_prod_smiles)

\* line 520: v == text, where v is a str and text is the bbox dict of the pair
\* (bbox, bbox['smiles']); a str never equals a dict
StrEqualsBbox(v, text) == FALSE

\* lines 517-521
CorefSmilesToGraphs(coref_smiles, mol_bboxes_text) ==
  LET hit(smiles, k) == \E m \in 1..Len(mol_bboxes_text) :
                           /\ mol_bboxes_text[m][2] = smiles
                           /\ StrEqualsBbox(coref_smiles[k], mol_bboxes_text[m][1])
      keys == {mol_bboxes_text[m][2] : m \in 1..Len(mol_bboxes_text)}
  IN  [smiles \in {x \in keys : \E k \in DOMAIN coref_smiles : hit(x, k)} |->
         CHOOSE k \in DOMAIN coref_smiles : hit(smiles, k)]

\* lines 540-545
NewRxn(rxn, coref_smiles_to_graphs) ==
  [reactants |->
     [r \in 1..Len(rxn.reactants) |->
        IF "smiles" \in DOMAIN rxn.reactants[r]
           /\ rxn.reactants[r].smiles \in DOMAIN coref_smiles_to_graphs
        THEN [smiles |-> coref_smiles_to_graphs[rxn.reactants[r].smiles]]
        ELSE rxn.reactants[r]],
   products |-> rxn.products]

\* lines 528-546 for one rxn: one new_rxn for every candidate that matches, in
\* the order of the two loops of lines 528-529
RECURSIVE EmittedFor(_, _, _, _, _)
EmittedFor(oracle, rxn, candidates, c, coref_smiles_to_graphs) ==
  IF c > Len(candidates) THEN <<>>
  ELSE (IF /\ IsCandidate(candidates[c])
           /\ ProductsMatch(oracle, rxn.products[1].smiles,
                            candidates[c].products[1].smiles)
        THEN <<NewRxn(rxn, coref_smiles_to_graphs)>>
        ELSE <<>>)
       \o EmittedFor(oracle, rxn, candidates, c + 1, coref_smiles_to_graphs)

\* faulty variant: lines 514-515 missing, a figure without a usable
\* coreference record reconciled with an empty structure-to-label map
EmittedForResult_NoSkip(oracle, res, coref_results_dict, i) ==
  LET coref_res == clean_corefs(coref_results_dict, i)
      coref_smiles_to_graphs ==
        IF IsNone(coref_res) THEN EmptyDict
        ELSE CorefSmilesToGraphs(coref_res.coref_smiles, coref_res.mol_bboxes_text)
      candidates == FlattenSeq([j \in 1..Len(res) |-> res[j].reactions], 1)
  IN  FlattenSeq(
        [r \in 1..Len(res[i].reactions) |->
           IF IsWildcardProduct(res[i].reactions[r])
           THEN EmittedFor(oracle, res[i].reactions[r], candidates, 1,
                           coref_smiles_to_graphs)
           ELSE <<>>], 1)

\* lines 512-546 for results[i]
EmittedForResult(oracle, res, coref_results_dict, i) ==
  LET coref_res == clean_corefs(coref_results_dict, i)
  IN  IF IsNone(coref_res) THEN <<>>
      ELSE LET coref_smiles_to_graphs ==
                 CorefSmilesToGraphs(coref_res.coref_smiles, coref_res.mol_bboxes_text)
               candidates == FlattenSeq([j \in 1..Len(res) |-> res[j].reactions], 1)
           IN  FlattenSeq(
                 [r \in 1..Len(res[i].reactions) |->
                    IF IsWildcardProduct(res[i].reactions[r])
                    THEN EmittedFor(oracle, res[i].reactions[r], candidates, 1,
                                    coref_smiles_to_graphs)
                    ELSE <<>>], 1)

\* lines 502-509: new_res['reactions'] of results[i] after the first loop
ConcreteReactions(reactions) == SelectSeq(reactions, IsConcreteProduct)

\* the index of the dict that new_res names during the second loop: the one the
\* first loop bound last (line 503)
NewResIndex(res) == Len(res)

backout(res, coref_results_dict, oracle) ==
  LET emitted == FlattenSeq([i \in 1..Len(res) |->
                               EmittedForResult(oracle, res, coref_results_dict, i)], 1)
  IN  [i \in 1..Len(res) |->
         [reactions |->
            ConcreteReactions(res[i].reactions)
              \o (IF i = NewResIndex(res) THEN emitted ELSE <<>>)]]

\* faulty variant: line 503 as new_res = res, the output dict is the input one
NewResIsInput_Always(res, i) == i \in 1..Len(res)

\* line 503: new_res names a dict the call creates, with a list of its own,
\* never one of the input dicts
NewResIsInput(res, i) == FALSE

\* the input list as the call leaves it.  The writes of backout are the appends
\* of lines 504, 509, 543, 545 and 546 and the store of line 521; they reach
\* the inputs only where their target is an input object: new_rxn and its
\* 'reactants' list are created at line 540, coref_smiles_to_graphs at line
\* 517, final_results at line 500.
InputsAfterBackout(res, coref_results_dict, oracle) ==
  LET out == backout(res, coref_results_dict, oracle)
  IN  [i \in 1..Len(res) |->
         IF NewResIsInput(res, i)
         THEN [res[i] EXCEPT !.reactions = @ \o out[i].reactions]
         ELSE res[i]]

\* ------------------------------------------------------------------ inputs
\* texts
S_R == <<"R">>
S_Ar == <<"A", "r">>
S_Yield == <<"Y", "i", "e", "l", "d">>
S_Me == <<"M", "e">>
S_Ph == <<"P", "h">>
S_EtSuffixed == <<"E", "t", " ", "(", "2", "b", ")">>
S_4Cl == <<"4", "-", "C", "l">>
S_Unsubstituted == <<"u", "n", "s", "u", "b", "s", "t", "i", "t", "u", "t", "e", "d">>
S_NotDetermined == <<"n", ".", "d", ".">>
S_85 == <<"8", "5", "%">>
S_90 == <<"9", "0", "%">>
S_rt == <<"r", "t">>
S_3a == <<"3", "a", ",", " ", "R", " ", "=", " ", "C", "l">>
S_3b == <<"3", "b", ",", " ", "R", " ", "=", " ", "B", "r">>
S_Multi == <<"1", "a", ":", " ", "M", "e", " ", "1", "b", " ", "E", "t">>

\* structure strings
SM_C == <<"C">>
SM_CC == <<"C", "C">>
SM_CStar == <<"C", "*">>
SM_CStarStar == <<"C", "*", "*">>
SM_CRu == <<"C", "[", "R", "u", "]">>

Mol(bbox, smiles) == [category |-> MolCat, bbox |-> bbox, smiles |-> smiles]
Txt(text) == [category |-> TxtCat, text |-> text]
Atom(symbol, x, y) == [atom_symbol |-> symbol, x |-> x, y |-> y]
Bond(i, j, bond_type) == [endpoint_atoms |-> <<i, j>>, bond_type |-> bond_type]
Column(text, tag) == [text |-> text, tag |-> tag]
Cell(text) == [text |-> text]
Row(texts) == [c \in 1..Len(texts) |-> Cell(texts[c])]

\* reactions as the reaction detector leaves them, each with the recogniser's
\* answer for its two crops
RX_Wildcard ==
  [reactions |-> <<[reactants |-> <<Mol(1, SM_CStar)>>,
                    conditions |-> <<Txt(S_rt)>>,
                    products |-> <<Mol(2, SM_CStarStar)>>]>>,
   image |-> <<[atoms |-> <<Atom(<<"C">>, 0, 0), Atom(Bracketed(S_R), 1, 0)>>,
                bonds |-> <<Bond(1, 2, "single")>>],
               [atoms |-> <<Atom(<<"C">>, 0, 0), Atom(Bracketed(S_R), 1, 0),
                            Atom(Bracketed(S_Ar), 0, 1)>>,
                bonds |-> <<Bond(1, 2, "single"), Bond(1, 3, "single")>>]>>]

RX_Concrete ==
  [reactions |-> <<[reactants |-> <<Mol(1, SM_C)>>,
                    conditions |-> <<>>,
                    products |-> <<Mol(2, SM_CC)>>]>>,
   image |-> <<[atoms |-> <<Atom(<<"C">>, 0, 0)>>, bonds |-> <<>>],
               [atoms |-> <<Atom(<<"C">>, 0, 0), Atom(<<"C">>, 1, 0)>>,
                bonds |-> <<Bond(1, 2, "double")>>]>>]

RX_Ruthenium ==
  [reactions |-> <<[reactants |-> <<Mol(1, SM_C)>>,
                    conditions |-> <<Txt(S_rt)>>,
                    products |-> <<Mol(2, SM_CRu)>>]>>,
   image |-> <<[atoms |-> <<Atom(<<"C">>, 0, 0), Atom(<<"(", "R", ")">>, 1, 0)>>,
                bonds |-> <<Bond(1, 2, "single")>>],
               [atoms |-> <<Atom(<<"C">>, 0, 0), Atom(<<"R", "u">>, 1, 0),
                            Atom(S_R, 0, 1)>>,
                bonds |-> <<Bond(1, 2, "single"), Bond(1, 3, "single")>>]>>]

\* two reactions detected in one figure: the wildcard-bearing one first, a
\* wildcard-free one after it.  In the first reactant's crop the recogniser
\* reports the same bond twice, with the endpoints in either order; in the
\* second reactant's crop it finds no atom at all.
RX_Two ==
  [reactions |-> <<[reactants |-> <<Mol(1, SM_CStar), Mol(5, SM_C)>>,
                    conditions |-> <<Txt(S_rt)>>,
                    products |-> <<Mol(2, SM_CStarStar)>>],
                   [reactants |-> <<Mol(3, SM_C)>>,
                    conditions |-> <<>>,
                    products |-> <<Mol(4, SM_CC)>>]>>,
   image |-> <<[atoms |-> <<Atom(<<"C">>, 0, 0), Atom(Bracketed(S_R), 1, 0)>>,
                bonds |-> <<Bond(1, 2, "single"), Bond(2, 1, "double")>>],
               RX_Wildcard.image[2]>>
              \o RX_Concrete.image
              \o <<[atoms |-> <<>>, bonds |-> <<>>]>>]

\* no reaction detected in the figure
RX_None == [reactions |-> <<>>, image |-> <<>>]

\* tables
ThreeColumns == <<Column(S_R, AlkylGroupTag), Column(S_Ar, AlkylGroupTag),
                  Column(S_Yield, "result")>>
TwoColumns == <<Column(S_R, AlkylGroupTag), Column(S_Yield, "result")>>

NoContent == NoneValue
T_Empty == [columns |-> TwoColumns, rows |-> <<>>]
T_All == [columns |-> ThreeColumns,
          rows |-> <<Row(<<S_Me, S_Ph, S_85>>), Row(<<S_EtSuffixed, S_4Cl, S_90>>),
                     Row(<<S_NotDetermined, S_Ph, S_85>>)>>]
T_Partial == [columns |-> TwoColumns,
              rows |-> <<Row(<<S_NotDetermined, S_85>>), Row(<<S_Unsubstituted, S_90>>)>>]
T_NoGroup == [columns |-> TwoColumns,
              rows |-> <<Row(<<S_NotDetermined, S_85>>), Row(<<<<>>, S_90>>)>>]

FigureOf(rx, content, page) ==
  [figure |-> [figure |-> [image |-> rx.image], table |-> [content |-> content],
               page |-> page],
   reactions |-> rx.reactions]

FigureInputs ==
  {FigureOf(RX_Wildcard, c, 1) : c \in {NoContent, T_All, T_NoGroup}}
    \cup {FigureOf(RX_Two, T_Partial, 1), FigureOf(RX_None, T_All, 1),
          FigureOf(RX_Concrete, T_Empty, 2), FigureOf(RX_Ruthenium, T_Partial, 3)}

\* coreference records
\* corefs pairs the molecule bboxes[1] with the identifier bboxes[2]
K_Usable ==
  [bboxes |-> <<[category |-> MolCat, bbox |-> 1],
                [category |-> "[Idt]", text |-> <<S_3a>>]>>,
   corefs |-> << <<1, 2>> >>,
   mol_bboxes |-> <<[bbox |-> 1, smiles |-> SM_CStar]>>,
   idt_bboxes |-> <<[text |-> S_3a], [text |-> S_3b]>>]
K_Multi ==
  [bboxes |-> <<[category |-> MolCat, bbox |-> 1]>>,
   mol_bboxes |-> <<[bbox |-> 1]>>,
   idt_bboxes |-> <<[text |-> S_Multi]>>]
K_NoMolecules ==
  [bboxes |-> <<[category |-> "[Idt]", text |-> <<S_3a>>]>>]

\* no record at all, the same record for every figure, or the usable record
\* for the first figure and another one for the figures after it
CorefInputs(n) ==
  {<<>>} \cup {[i \in 1..n |-> k] : k \in {K_Usable, K_NoMolecules, K_Multi}}
    \cup {[i \in 1..n |-> IF i = 1 THEN K_Usable ELSE k] : k \in {K_NoMolecules, K_Multi}}

\* ===================================================== extraction service
\* src/app/api/services/extractor.py, src/app/api/routers/system.py
\* Settings.max_concurrent_tasks and Settings.task_queue_size
max_concurrent_tasks == 2
task_queue_size == 10
\* cleanup_system passes max_age_hours=24
max_age_hours == 24

Workers == 1..max_concurrent_tasks
NoTask == 0
\* batch_id=None
NoBatch == 0

IdleWorker == [pc |-> "idle", task |-> NoTask, batch |-> NoBatch]
\* a worker thread that an exception has ended
DeadWorker == [pc |-> "dead", task |-> NoTask, batch |-> NoBatch]

\* the service before startup, as the engine's specification leaves it
ServiceOff ==
  /\ task_queue = <<>>
  /\ task_status = <<>>
  /\ workers = <<>>
  /\ request = [kind |-> "none"]
  /\ next_id = 0
  /\ now = 0
  /\ uploads = {}
  /\ result_files = {}
  /\ cleanup_log = [force |-> FALSE, before |-> {}, count |-> 0, calls |-> 0]

\* the engine while the service is what is looked at
EngineOff ==
  /\ figures = <<>>
  /\ results = <<>>
  /\ coref_results = <<>>
  /\ final_results = <<>>
  /\ coref_parsed = <<>>
  /\ match_oracle = "unused"
  /\ sent_graphs = <<>>
  /\ pre_results = <<>>
  /\ runs = 0
  /\ pc = "off"

\* main.startup_event -> initialize_queue_and_workers: an empty queue, an empty
\* status dict, max_concurrent_tasks workers waiting on the queue
ServiceInit ==
  /\ EngineOff
  /\ task_queue = <<>>
  /\ task_status = [id \in {} |-> <<>>]
  /\ workers = [w \in Workers |-> IdleWorker]
  /\ request = [kind |-> "none"]
  /\ next_id = 0
  /\ now = 0
  /\ uploads = {}
  /\ result_files = {}
  /\ cleanup_log = [force |-> FALSE, before |-> {}, count |-> 0, calls |-> 0]

\* task_status_dict[task_id] = value
StatusPut(d, id, value) == [k \in DOMAIN d \cup {id} |-> IF k = id THEN value ELSE d[k]]
\* del task_status_dict[task_id], for every id of ids
StatusDel(d, ids) == [k \in DOMAIN d \ ids |-> d[k]]
\* dict.update(fields) on one entry
EntryUpdate(entry, fields) ==
  [k \in DOMAIN entry \cup DOMAIN fields |->
     IF k \in DOMAIN fields THEN fields[k] ELSE entry[k]]

\* submit_task lines 233-244
task_details(task_id, batch_id, submitted_at) ==
  [id |-> task_id, type |-> "single", batch_id |-> batch_id, status |-> "queued",
   submitted_at |-> submitted_at, result |-> "None", error |-> "None"]

\* submit_task lines 221-248 called by upload_file (upload.py 130-147): the id
\* is drawn, the upload is saved, and the task is put on the queue; queue.Full
\* answers 503 (the saved upload stays)
SubmitPut ==
  /\ request.kind = "none"
  /\ next_id < MaxTasks
  /\ next_id' = next_id + 1
  /\ uploads' = uploads \cup {next_id + 1}
  /\ IF Len(task_queue) < task_queue_size
     THEN /\ task_queue' = Append(task_queue, next_id + 1)
          /\ request' = [kind |-> "submit", id |-> next_id + 1, submitted_at |-> now]
     ELSE /\ task_queue' = task_queue
          /\ request' = [kind |-> "none"]
  /\ UNCHANGED <<task_status, workers, now, result_files, cleanup_log>>
  /\ UNCHANGED engine_vars

\* upload_batch_files lines 46-55
batch_task_details(batch_id, total_files, submitted_at) ==
  [id |-> batch_id, type |-> "batch", status |-> "queued",
   submitted_at |-> submitted_at, total_files |-> total_files,
   completed_files |-> 0, failed_files |-> 0,
   subtasks |-> [t \in {} |-> [status |-> "queued"]]]

\* the batch entries of the status dict
BatchIds == {id \in DOMAIN task_status : task_status[id].type = "batch"}

\* what a client uploads as one batch: for each file whether allowed_file
\* (upload.py 17-19) accepts its name
BatchInputs == {<<TRUE>>, <<TRUE, TRUE>>, <<TRUE, FALSE>>, <<FALSE>>}

\* upload_batch_files lines 34-57: the batch id is drawn (a uuid, apart from
\* every task id) and the batch record prepared, total_files counting every
\* uploaded file
UploadBatch(files) ==
  /\ request.kind = "none"
  /\ Cardinality(BatchIds) < MaxBatches
  /\ next_id + Len(files) <= MaxTasks
  /\ request' = [kind |-> "batch",
                 details |-> batch_task_details(0 - (Cardinality(BatchIds) + 1),
                                                Len(files), now),
                 files |-> files]
  /\ UNCHANGED <<task_queue, task_status, workers, next_id, now, uploads,
                 result_files, cleanup_log>>
  /\ UNCHANGED engine_vars

\* upload_batch_files lines 59-62: a file that is not allowed is skipped
BatchSkip ==
  /\ request.kind = "batch"
  /\ request.files # <<>>
  /\ ~Head(request.files)
  /\ request' = [request EXCEPT !.files = Tail(@)]
  /\ UNCHANGED <<task_queue, task_status, workers, next_id, now, uploads,
                 result_files, cleanup_log>>
  /\ UNCHANGED engine_vars

\* upload_batch_files lines 66-74 into submit_task lines 221-248: as SubmitPut,
\* with the batch id; queue.Full ends the whole request with 503
BatchPut ==
  /\ request.kind = "batch"
  /\ request.files # <<>>
  /\ Head(request.files)
  /\ next_id < MaxTasks
  /\ next_id' = next_id + 1
  /\ uploads' = uploads \cup {next_id + 1}
  /\ IF Len(task_queue) < task_queue_size
     THEN /\ task_queue' = Append(task_queue, next_id + 1)
          /\ request' = [kind |-> "batch_submit", id |-> next_id + 1,
                         submitted_at |-> now, details |-> request.details,
                         files |-> request.files]
     ELSE /\ task_queue' = task_queue
          /\ request' = [kind |-> "none"]
  /\ UNCHANGED <<task_status, workers, now, result_files, cleanup_log>>
  /\ UNCHANGED engine_vars

\* submit_task lines 249-252: the status entry is registered under the lock;
\* upload_batch_files lines 75-76 then note the subtask in the batch record
SubmitRegister ==
  /\ request.kind \in {"submit", "batch_submit"}
  /\ task_status' =
       StatusPut(task_status, request.id,
                 task_details(request.id,
                              IF request.kind = "submit" THEN NoBatch
                              ELSE request.details.id,
                              request.submitted_at))
  /\ request' =
       IF request.kind = "submit" THEN [kind |-> "none"]
       ELSE [kind |-> "batch",
             details |-> [request.details EXCEPT !.subtasks =
                            StatusPut(@, request.id, [status |-> "queued"])],
             files |-> Tail(request.files)]
  /\ UNCHANGED <<task_queue, workers, next_id, now, uploads, result_files, cleanup_log>>
  /\ UNCHANGED engine_vars

\* upload_batch_files lines 78-85: 400 when no file was submitted, else the
\* batch record is registered with status 'processing'
BatchRegister ==
  /\ request.kind = "batch"
  /\ request.files = <<>>
  /\ task_status' =
       IF DOMAIN request.details.subtasks = {} THEN task_status
       ELSE StatusPut(task_status, request.details.id,
                      [request.details EXCEPT !.status = "processing"])
  /\ request' = [kind |-> "none"]
  /\ UNCHANGED <<task_queue, workers, next_id, now, uploads, result_files, cleanup_log>>
  /\ UNCHANGED engine_vars

\* faulty variant: line 112 as a plain else, every subtask that is not
\* 'completed' counted as failed
update_batch_status_ElseFailed(batch_id, task_status_dict, clock) ==
  IF batch_id \in DOMAIN task_status_dict /\ task_status_dict[batch_id].type = "batch"
  THEN LET batch_task == task_status_dict[batch_id]
           subtask_status(t) ==
             IF t \in DOMAIN task_status_dict THEN task_status_dict[t].status
             ELSE "None"
           completed_count ==
             Cardinality({t \in DOMAIN batch_task.subtasks :
                            subtask_status(t) = "completed"})
           failed_count ==
             Cardinality({t \in DOMAIN batch_task.subtasks :
                            subtask_status(t) # "completed"})
           counted ==
             [batch_task EXCEPT
                !.subtasks = [t \in DOMAIN batch_task.subtasks |->
                                IF subtask_status(t) # "None"
                                THEN [status |-> subtask_status(t)]
                                ELSE batch_task.subtasks[t]],
                !.completed_files = completed_count,
                !.failed_files = failed_count]
       IN  StatusPut(task_status_dict, batch_id,
                     IF completed_count + failed_count = batch_task.total_files
                     THEN EntryUpdate(counted, [status |-> "completed",
                                                completion_time |-> clock])
                     ELSE counted)
  ELSE task_status_dict

\* update_batch_status lines 95-120, under task_status_lock.  The statuses it
\* reads are written by the workers outside the lock; each read is of one
\* dict entry and a finished task's status no longer changes.
update_batch_status(batch_id, task_status_dict, clock) ==
  IF batch_id \in DOMAIN task_status_dict /\ task_status_dict[batch_id].type = "batch"
  THEN LET batch_task == task_status_dict[batch_id]
           subtask_status(t) ==
             IF t \in DOMAIN task_status_dict THEN task_status_dict[t].status
             ELSE "None"
           completed_count ==
             Cardinality({t \in DOMAIN batch_task.subtasks :
                            subtask_status(t) = "completed"})
           failed_count ==
             Cardinality({t \in DOMAIN batch_task.subtasks :
                            subtask_status(t) \in {"error", "failed"}})
           counted ==
             [batch_task EXCEPT
                !.subtasks = [t \in DOMAIN batch_task.subtasks |->
                                IF subtask_status(t) # "None"
                                THEN [status |-> subtask_status(t)]
                                ELSE batch_task.subtasks[t]],
                !.completed_files = completed_count,
                !.failed_files = failed_count]
       IN  StatusPut(task_status_dict, batch_id,
                     IF completed_count + failed_count = batch_task.total_files
                     THEN EntryUpdate(counted, [status |-> "completed",
                                                completion_time |-> clock])
                     ELSE counted)
  ELSE task_status_dict

\* worker lines 260-263: task_queue.get
WorkerGet(w) ==
  /\ workers[w].pc = "idle"
  /\ task_queue # <<>>
  /\ workers' = [workers EXCEPT ![w] = [pc |-> "got", task |-> Head(task_queue),
                                        batch |-> NoBatch]]
  /\ task_queue' = Tail(task_queue)
  /\ UNCHANGED <<task_status, request, next_id, now, uploads, result_files, cleanup_log>>
  /\ UNCHANGED engine_vars

\* extract_task_optimized lines 126-134.  With no entry for the task the
\* subscript of line 127 raises KeyError, the handler of line 163 raises it
\* again, the finally clause removes the upload and the exception leaves
\* worker(), which catches queue.Empty only: the thread ends.
WorkerStart(w) ==
  /\ workers[w].pc = "got"
  /\ LET id == workers[w].task
     IN  IF id \in DOMAIN task_status
         THEN /\ task_status' = [task_status EXCEPT ![id] =
                                   EntryUpdate(@, [status |-> "processing"])]
              /\ workers' = [workers EXCEPT ![w].pc = "extracting",
                                            ![w].batch = task_status[id].batch_id]
              /\ uploads' = uploads
         ELSE /\ task_status' = task_status
              /\ workers' = [workers EXCEPT ![w] = DeadWorker]
              /\ uploads' = uploads \ {id}
  /\ UNCHANGED <<task_queue, request, next_id, now, result_files, cleanup_log>>
  /\ UNCHANGED engine_vars

\* faulty variant: the update of lines 150-156 moved before the with block of
\* lines 145-146, the status is 'completed' while the file is yet to be written
WorkerWrite_StatusFirst(w) ==
  /\ workers[w].pc = "extracting"
  /\ task_status' = [task_status EXCEPT ![workers[w].task] =
                       EntryUpdate(@, [status |-> "completed",
                                       result_file |-> workers[w].task])]
  /\ workers' = [workers EXCEPT ![w].pc = "written"]
  /\ UNCHANGED <<task_queue, result_files, request, next_id, now, uploads, cleanup_log>>
  /\ UNCHANGED engine_vars

\* lines 136-146: extract_from_pdf returns and the result file is written
WorkerWrite(w) ==
  /\ workers[w].pc = "extracting"
  /\ result_files' = result_files \cup {workers[w].task}
  /\ workers' = [workers EXCEPT ![w].pc = "written"]
  /\ UNCHANGED <<task_queue, task_status, request, next_id, now, uploads, cleanup_log>>
  /\ UNCHANGED engine_vars

\* the end of the try or except block of extract_task_optimized for the task
\* the worker holds: the entry is updated when it is there (a missing entry
\* ends the thread as in WorkerStart).  Without a batch id the finally clause
\* only removes the upload (lines 172-176) and the worker is back at the queue
\* (line 265); with one, update_batch_status is still to be called.
WorkerEnd(w, fields) ==
  LET id == workers[w].task
  IN  IF id \in DOMAIN task_status
      THEN /\ task_status' = [task_status EXCEPT ![id] = EntryUpdate(@, fields)]
           /\ IF workers[w].batch = NoBatch
              THEN /\ workers' = [workers EXCEPT ![w] = IdleWorker]
                   /\ uploads' = uploads \ {id}
              ELSE /\ workers' = [workers EXCEPT ![w].pc = "updating"]
                   /\ uploads' = uploads
      ELSE /\ task_status' = task_status
           /\ workers' = [workers EXCEPT ![w] = DeadWorker]
           /\ uploads' = uploads \ {id}

\* lines 148-159: the entry is updated to 'completed'
WorkerComplete(w) ==
  /\ workers[w].pc = "written"
  /\ WorkerEnd(w, [status |-> "completed", result_file |-> workers[w].task,
                   completion_time |-> now])
  /\ UNCHANGED <<task_queue, request, next_id, now, result_files, cleanup_log>>
  /\ UNCHANGED engine_vars

\* lines 161-166: extract_from_pdf (or the writing of the file) raised
WorkerFail(w) ==
  /\ workers[w].pc = "extracting"
  /\ WorkerEnd(w, [status |-> "failed", error |-> "raised"])
  /\ UNCHANGED <<task_queue, request, next_id, now, result_files, cleanup_log>>
  /\ UNCHANGED engine_vars

\* lines 167-176 for a task of a batch: update_batch_status, then the upload
\* is removed and the worker is back at the queue
WorkerUpdateBatch(w) ==
  /\ workers[w].pc = "updating"
  /\ task_status' = update_batch_status(workers[w].batch, task_status, now)
  /\ uploads' = uploads \ {workers[w].task}
  /\ workers' = [workers EXCEPT ![w] = IdleWorker]
  /\ UNCHANGED <<task_queue, request, next_id, now, result_files, cleanup_log>>
  /\ UNCHANGED engine_vars

\* GET /results/{task_id} (tasks.py 71-94): the status code and, with 200, the
\* file that is sent
get_results(task_id) ==
  IF task_id \notin DOMAIN task_status THEN [code |-> 404, file |-> NoTask]
  ELSE LET task_data == task_status[task_id]
       IN  IF task_data.status # "completed" THEN [code |-> 400, file |-> NoTask]
           ELSE IF "result_file" \notin DOMAIN task_data
                   \/ task_data.result_file \notin result_files
                THEN [code |-> 404, file |-> NoTask]
                ELSE [code |-> 200, file |-> task_data.result_file]

\* GET /download/{task_id} (tasks.py 96-118): the same tests, the file sent as
\* an attachment
download_results(task_id) ==
  IF task_id \notin DOMAIN task_status THEN [code |-> 404, file |-> NoTask]
  ELSE IF task_status[task_id].status # "completed" THEN [code |-> 400, file |-> NoTask]
  ELSE IF "result_file" \notin DOMAIN task_status[task_id]
          \/ task_status[task_id].result_file \notin result_files
       THEN [code |-> 404, file |-> NoTask]
       ELSE [code |-> 200, file |-> task_status[task_id].result_file]

\* GET /results/batch/{batch_id} (tasks.py 43-69): the status code and, with
\* 200, the subtasks whose result file is read into the answer
get_batch_results(batch_id) ==
  IF batch_id \notin DOMAIN task_status \/ task_status[batch_id].type # "batch"
  THEN [code |-> 404, results |-> {}]
  ELSE LET batch_task == task_status[batch_id]
       IN  IF batch_task.status # "completed" THEN [code |-> 400, results |-> {}]
           ELSE [code |-> 200,
                 results |->
                   {task_id \in DOMAIN batch_task.subtasks :
                      /\ task_id \in DOMAIN task_status
                      /\ task_status[task_id].status = "completed"
                      /\ "result_file" \in DOMAIN task_status[task_id]
                      /\ task_status[task_id].result_file \in result_files}]

\* cleanup_old_tasks lines 273-283: the ids the loop removes
CleanupRemoves(task_status_dict, force, clock) ==
  {task_id \in DOMAIN task_status_dict :
     /\ "upload_time" \in DOMAIN task_status_dict[task_id]
     /\ \/ (clock - task_status_dict[task_id].upload_time) * 3600 > max_age_hours * 3600
        \/ force}

\* cleanup_old_tasks lines 269-284
cleanup_old_tasks(task_status_dict, force, clock) ==
  StatusDel(task_status_dict, CleanupRemoves(task_status_dict, force, clock))

\* POST /system/cleanup (cleanup_system lines 94-121): it runs on the event
\* loop without awaiting, hence between requests and in one step against the
\* other handlers; the worker threads run on
CleanupSystem(force) ==
  /\ request.kind = "none"
  /\ cleanup_log.calls < MaxCleanups
  /\ task_status' = cleanup_old_tasks(task_status, force, now)
  /\ result_files' =
       result_files \
         {task_status[id].result_file :
            id \in {i \in CleanupRemoves(task_status, force, now) :
                      "result_file" \in DOMAIN task_status[i]}}
  /\ cleanup_log' = [force |-> force, before |-> DOMAIN task_status,
                     count |-> Cardinality(CleanupRemoves(task_status, force, now)),
                     calls |-> cleanup_log.calls + 1]
  /\ UNCHANGED <<task_queue, workers, request, next_id, now, uploads>>
  /\ UNCHANGED engine_vars

\* time passes, max_age_hours at a time
Tick ==
  /\ now < MaxClock
  /\ now' = now + max_age_hours
  /\ UNCHANGED <<task_queue, task_status, workers, request, next_id, uploads,
                 result_files, cleanup_log>>
  /\ UNCHANGED engine_vars

ServiceNext ==
  \/ SubmitPut
  \/ SubmitRegister
  \/ \E w \in Workers : WorkerGet(w)
  \/ \E w \in Workers : WorkerStart(w)
  \/ \E w \in Workers : WorkerWrite(w)
  \/ \E w \in Workers : WorkerComplete(w)
  \/ \E w \in Workers : WorkerFail(w)
  \/ \E force \in BOOLEAN : CleanupSystem(force)
  \/ Tick

ServiceSpec == ServiceInit /\ [][ServiceNext]_vars

\* The threads of the pool are scheduled by the operating system and the
\* interpreter lock is handed on every few milliseconds: a worker that can take
\* its next step takes it, and extract_from_pdf returns or raises.  A request
\* handler that has put a task on the queue goes on to register it.  Nothing
\* obliges a client to send a request.
WorkerFairness ==
  \A w \in Workers :
    /\ WF_vars(WorkerGet(w))
    /\ WF_vars(WorkerStart(w))
    /\ WF_vars(WorkerWrite(w) \/ WorkerFail(w))
    /\ WF_vars(WorkerComplete(w))
    /\ WF_vars(WorkerUpdateBatch(w))

FairServiceSpec == ServiceSpec /\ WF_vars(SubmitRegister) /\ WorkerFairness

\* A busy service: both workers are extracting and task_queue_size - 1 further
\* tasks, accepted and registered, wait on the queue.  Their ids lie above the
\* ids of the submissions that follow.
BacklogInit ==
  /\ EngineOff
  /\ workers = [w \in Workers |-> [pc |-> "extracting", task |-> MaxTasks + w,
                                    batch |-> NoBatch]]
  /\ task_queue = [n \in 1..(task_queue_size - 1) |->
                     MaxTasks + max_concurrent_tasks + n]
  /\ task_status =
       [id \in (MaxTasks + 1)..(MaxTasks + max_concurrent_tasks + task_queue_size - 1) |->
          IF id <= MaxTasks + max_concurrent_tasks
          THEN EntryUpdate(task_details(id, NoBatch, 0), [status |-> "processing"])
          ELSE task_details(id, NoBatch, 0)]
  /\ request = [kind |-> "none"]
  /\ next_id = 0
  /\ now = 0
  /\ uploads = DOMAIN task_status
  /\ result_files = {}
  /\ cleanup_log = [force |-> FALSE, before |-> {}, count |-> 0, calls |-> 0]

\* the extractions that have returned or raised so far
Returned ==
  Cardinality({id \in DOMAIN task_status :
                 task_status[id].status \in {"completed", "failed"}})
    + Cardinality({w \in Workers : workers[w].pc = "written"})

\* single uploads against the busy service, followed until MaxReturns
\* extractions have ended
BacklogNext ==
  \/ SubmitPut
  \/ SubmitRegister
  \/ \E w \in Workers : WorkerGet(w)
  \/ \E w \in Workers : WorkerStart(w)
  \/ \E w \in Workers : Returned < MaxReturns /\ WorkerWrite(w)
  \/ \E w \in Workers : WorkerComplete(w)
  \/ \E w \in Workers : Returned < MaxReturns /\ WorkerFail(w)

BacklogSpec == BacklogInit /\ [][BacklogNext]_vars

\* batch uploads: one upload_batch_files request at a time on the event loop,
\* against the worker threads
BatchNext ==
  \/ \E files \in BatchInputs : UploadBatch(files)
  \/ BatchSkip
  \/ BatchPut
  \/ SubmitRegister
  \/ BatchRegister
  \/ \E w \in Workers : WorkerGet(w)
  \/ \E w \in Workers : WorkerStart(w)
  \/ \E w \in Workers : WorkerWrite(w)
  \/ \E w \in Workers : WorkerComplete(w)
  \/ \E w \in Workers : WorkerFail(w)
  \/ \E w \in Workers : WorkerUpdateBatch(w)

BatchSpec ==
  /\ ServiceInit
  /\ [][BatchNext]_vars
  /\ WF_vars(BatchSkip) /\ WF_vars(BatchPut) /\ WF_vars(SubmitRegister)
  /\ WF_vars(BatchRegister)
  /\ WorkerFairness

\* ------------------------------------------------------------ state machine
Init ==
  \E n \in 1..MaxTemplates :
    \E input \in [1..n -> FigureInputs] :
      /\ figures = [i \in 1..n |-> input[i].figure]
      /\ results = [i \in 1..n |-> [reactions |-> input[i].reactions]]
      /\ coref_results \in CorefInputs(n)
      /\ final_results = <<>>
      /\ coref_parsed = <<>>
      /\ match_oracle = "unused"
      /\ sent_graphs = <<>>
      /\ pre_results = <<>>
      /\ runs = 0
      /\ pc = "ready"
      /\ ServiceOff

\* OpenChemIE.extract_reactions_from_figures_and_tables: one call of
\* process_tables over all figures
ProcessTables ==
  /\ pc = "ready"
  /\ runs < MaxRuns
  /\ pre_results' = results
  /\ results' = process_tables(figures, results)
  /\ sent_graphs' =
       [i \in 1..Len(figures) |->
          IF FirstRaise(figures, results) = 0 \/ i < FirstRaise(figures, results)
          THEN SentForFigure(figures[i], results[i])
          ELSE <<>>]
  /\ runs' = runs + 1
  /\ pc' = IF FirstRaise(figures, results) = 0 THEN "ready" ELSE "raised"
  /\ UNCHANGED <<figures, coref_results, final_results, coref_parsed, match_oracle>>
  /\ UNCHANGED service_vars

\* OpenChemIE.extract_reactions_from_pdf, line 582: one call of
\* replace_rgroups_in_figure over the reactions as the detector left them
ReplaceRGroups ==
  /\ pc = "ready"
  /\ runs = 0
  /\ pre_results' = results
  /\ results' = replace_rgroups_in_figure(figures, results, coref_results)
  /\ sent_graphs' =
       [i \in 1..Len(figures) |->
          IF i <= Len(coref_results)
          THEN SentForCorefs(figures[i], results[i], coref_results[i])
          ELSE <<>>]
  /\ pc' = "replaced"
  /\ UNCHANGED <<figures, coref_results, final_results, coref_parsed, match_oracle, runs>>
  /\ UNCHANGED service_vars

\* OpenChemIE.extract_reactions_from_pdf, line 583: one call of backout
Backout ==
  /\ pc \in {"ready", "replaced"}
  /\ \E oracle \in SubstructOracles :
       /\ final_results' = backout(results, coref_results, oracle)
       /\ results' = InputsAfterBackout(results, coref_results, oracle)
       /\ match_oracle' = oracle
  /\ coref_parsed' = [i \in 1..Len(results) |-> clean_corefs(coref_results, i)]
  /\ pc' = "done"
  /\ UNCHANGED <<figures, coref_results, sent_graphs, pre_results, runs>>
  /\ UNCHANGED service_vars

Next == ProcessTables \/ ReplaceRGroups \/ Backout

Spec == Init /\ [][Next]_vars

\* ================================================================== claims
Templates == 1..Len(results)

\* the instances backout emitted (they follow the concrete ones of the last
\* template)
NumConcrete(i) == Len(SelectSeq(results[i].reactions, IsConcreteProduct))
NumEmitted ==
  Len(final_results[Len(results)].reactions) - NumConcrete(Len(results))
NumWildcard(i) == Len(SelectSeq(results[i].reactions, IsWildcardProduct))

RECURSIVE SumOver(_, _)
SumOver(f, k) == IF k = 0 THEN 0 ELSE f[k] + SumOver(f, k - 1)

\* C1: every template that starts with one original instance has, after
\* process_tables followed by backout, at least one instance in its final list,
\* and the final list still holds the original instance.
C1_FinalKeepsOriginal ==
  (pc = "done" /\ runs >= 1) =>
    \A i \in Templates :
      /\ Len(final_results[i].reactions) >= 1
      /\ \E k \in 1..Len(final_results[i].reactions) :
           final_results[i].reactions[k] = results[i].reactions[1]

\* C2: backout monotonicity: the output of backout holds, for every template
\* index, at least as many instances as the input held for it.
C2_BackoutMonotone ==
  pc = "done" =>
    \A i \in Templates :
      Len(final_results[i].reactions) >= Len(results[i].reactions)

\* the match the reconciler is specified to test: the candidate's product holds
\* the skeleton of P's product
SpecifiedMatch(oracle, p_rxn, c_rxn) ==
  /\ IsCandidate(c_rxn)
  /\ MolFromSmilesOk(Replace(p_rxn.products[1].smiles, "*", "C"))
  /\ MolFromSmilesOk(c_rxn.products[1].smiles)
  /\ HasSubstructMatch(oracle, c_rxn.products[1].smiles,
                       Replace(p_rxn.products[1].smiles, "*", "C"))

\* C6: first match wins: backout emits at most one reconciled instance for each
\* wildcard-bearing instance, and exactly one when there is exactly one
\* wildcard-bearing instance and some candidate matches it.  Stated for the
\* calls in which every figure has a usable coreference record, so that a run
\* that violates it does so by the number of instances emitted for one P alone.
C6_FirstMatchWins ==
  (pc = "done" /\ \A i \in Templates : ~IsNone(coref_parsed[i])) =>
    LET wild == SumOver([i \in Templates |-> NumWildcard(i)], Len(results))
    IN  /\ NumEmitted <= wild
        /\ (/\ wild = 1
            /\ \E i, j \in Templates :
                 \E p \in 1..Len(results[i].reactions) :
                   \E c \in 1..Len(results[j].reactions) :
                     /\ IsWildcardProduct(results[i].reactions[p])
                     /\ SpecifiedMatch(match_oracle, results[i].reactions[p],
                                       results[j].reactions[c]))
             => NumEmitted = 1

\* ------------------------------------------- what the claims are stated in
\* process_tables has just ended, by returning or with an exception, and
\* backout has not run yet
AfterCall == runs >= 1 /\ pc \in {"ready", "raised"}

\* figure i has a table and template i a reaction
HasTableAndReaction(i) == HasContent(figures[i]) /\ Len(pre_results[i].reactions) > 0

\* the last call ended with an exception at figure i or at an earlier one (the
\* TypeError of a third expansion of a table with rows)
RaisedBy(i) == \E j \in 1..i : FigureRaises(figures[j], pre_results[j])

\* the table of figure i was applied to template i by the last call
Expanded(i) == HasTableAndReaction(i) /\ ~RaisedBy(i)

\* the group Python's re extracts from each cell text of the tables above with
\* r_group_pattern (NoMatch: the pattern does not match)
ExpectedGroup(text) ==
  CASE text = S_Me -> <<"M", "e">>
    [] text = S_Ph -> <<"P", "h">>
    [] text = S_EtSuffixed -> <<"E", "t">>
    [] text = S_4Cl -> <<"C", "l">>
    [] text = S_Unsubstituted -> S_Unsubstituted
    [] OTHER -> NoMatch
NonMatchingTexts == {S_NotDetermined, <<>>}

IsAlkyl(column) == column.tag = "alkyl group"
AlkylColumns(content) == {c \in 1..Len(content.columns) : IsAlkyl(content.columns[c])}

\* one condition record per column that is not an alkyl-group column
RowRecordsOf(content, k) ==
  SelectSeq([c \in 1..Len(content.columns) |->
               [category |-> "[Table]", text |-> content.rows[k][c].text,
                tag |-> content.columns[c].tag, header |-> content.columns[c].text]],
            LAMBDA r : r.tag # "alkyl group")

RowSubstitutes(content, k) ==
  \E c \in AlkylColumns(content) : ExpectedGroup(content.rows[k][c].text) # NoMatch

\* the rows that yield no substitution, in row order
OtherRows(content) ==
  SelectSeq([k \in 1..Len(content.rows) |-> k], LAMBDA k : ~RowSubstitutes(content, k))

NumSubstituting(content) ==
  Cardinality({k \in 1..Len(content.rows) : RowSubstitutes(content, k)})

OriginalBefore(i) == pre_results[i].reactions[1]
OriginalAfter(i) == results[i].reactions[1]

\* the instances that were there before the call, the first one excepted, are
\* where they were
LaterInstancesKept(i) ==
  /\ Len(results[i].reactions) >= Len(pre_results[i].reactions)
  /\ \A j \in 2..Len(pre_results[i].reactions) :
       results[i].reactions[j] = pre_results[i].reactions[j]

PreGraphs(i) == get_atoms_and_bonds(figures[i].figure.image, OriginalBefore(i))
PreLocs(i) == find_relevant_groups(PreGraphs(i), figures[i].table.content.columns)
RowMappings(i, k) ==
  RowRGroups(figures[i].table.content.columns, figures[i].table.content.rows[k],
             1, EmptyDict)

\* the entries of relevant_locs[g] that name atom index a
LocsAt(i, g, a) == {n \in 1..Len(PreLocs(i)[g]) : PreLocs(i)[g][n][2] = a}

OldSymbols(i, g) == PreGraphs(i)[g].chartok_coords.symbols
NewSymbols(i, k, g) == sent_graphs[i][k][g].chartok_coords.symbols

\* C4: substitution conservation: in the graphs get_replaced_reaction produces,
\* a label differs from the input graph's only where (symbol, index) is in
\* relevant_locs and symbol is a key of the mapping, and then it is
\* mapping[symbol]; an index not in relevant_locs keeps its label, and so does
\* a located atom whose symbol has no mapping entry.
C4_SubstitutionConservation ==
  AfterCall =>
    \A i \in Templates :
      sent_graphs[i] # <<>> =>
        LET graphs == PreGraphs(i)
            relevant_locs == PreLocs(i)
        IN  \A k \in 1..Len(sent_graphs[i]) :
              LET mappings == RowMappings(i, k)
                  graph_copy == sent_graphs[i][k]
              IN  /\ Len(graph_copy) = Len(graphs)
                  /\ \A g \in 1..Len(graphs) :
                       LET olds == graphs[g].chartok_coords.symbols
                           news == graph_copy[g].chartok_coords.symbols
                           atoms == relevant_locs[g]
                       IN  /\ Len(news) = Len(olds)
                           /\ \A a \in 1..Len(olds) :
                                LET at == {n \in 1..Len(atoms) : atoms[n][2] = a}
                                IN  /\ news[a] # olds[a] =>
                                         \E n \in at :
                                           /\ atoms[n][1] \in DOMAIN mappings
                                           /\ news[a] = mappings[atoms[n][1]]
                                    /\ \A n \in at :
                                         atoms[n][1] \in DOMAIN mappings =>
                                           news[a] = mappings[atoms[n][1]]
                                    /\ at = {} => news[a] = olds[a]
                                    /\ (\A n \in at : atoms[n][1] \notin DOMAIN mappings)
                                         => news[a] = olds[a]

C4_Witness ==
  /\ AfterCall
  /\ \E i \in Templates :
       \E k \in 1..Len(sent_graphs[i]) :
         \E g \in 1..Len(PreGraphs(i)) :
           \E a, b \in 1..Len(OldSymbols(i, g)) :
             /\ NewSymbols(i, k, g)[a] # OldSymbols(i, g)[a]
             /\ LocsAt(i, g, b) # {}
             /\ \A n \in LocsAt(i, g, b) :
                  PreLocs(i)[g][n][1] \notin DOMAIN RowMappings(i, k)
             /\ NewSymbols(i, k, g)[b] = OldSymbols(i, g)[b]

\* ------------------------------------------------------- process_tables rows
\* the rows that yield a substitution, in row order
SubstitutingRows(content) ==
  SelectSeq([k \in 1..Len(content.rows) |-> k], LAMBDA k : RowSubstitutes(content, k))

\* the first call over a template with one reaction and a table whose rows all
\* yield a substitution
AllRowsSubstitute(i) ==
  /\ Expanded(i)
  /\ Len(pre_results[i].reactions) = 1
  /\ \A k \in 1..Len(figures[i].table.content.rows) :
       RowSubstitutes(figures[i].table.content, k)

\* the recogniser's label of atom a of the molecule drawn in crop bbox
DrawnLabel(i, bbox, a) == figures[i].figure.image[bbox].atoms[a].atom_symbol

\* the alkyl-group columns whose header the placeholder label names
HeaderColumns(content, label) ==
  {c \in AlkylColumns(content) : label = <<"[">> \o content.columns[c].text \o <<"]">>}

\* every molecule of the reaction has its graph among those of row k
EveryMoleculeSent(i, k) ==
  \A key \in {"reactants", "products"} :
    \A idx \in 1..Len(OriginalBefore(i)[key]) :
      \E g \in 1..Len(sent_graphs[i][k]) : sent_graphs[i][k][g].key = <<key, idx>>

\* the instance for row k carries, for every graph, the structure string the
\* service returned for it
InstanceFromGraphs(i, k, inst) ==
  \A g \in 1..Len(sent_graphs[i][k]) :
    LET graph == sent_graphs[i][k][g]
    IN  inst[graph.key[1]][graph.key[2]].smiles = convert_graph_to_output(graph).smiles

\* N instances appended in row order, each with the original conditions
\* followed by one record per column that is not an alkyl-group column
AppendedInRowOrder(i) ==
  LET content == figures[i].table.content
  IN  /\ Len(results[i].reactions) = 1 + Len(content.rows)
      /\ \A k \in 1..Len(content.rows) :
           LET inst == results[i].reactions[1 + k]
           IN  /\ inst.conditions = OriginalBefore(i).conditions \o RowRecordsOf(content, k)
               /\ EveryMoleculeSent(i, k)
               /\ InstanceFromGraphs(i, k, inst)

\* C5 (as claimed): with every row holding at least one matching alkyl-group
\* cell, N instances are appended in row order, and in the instance for row k
\* every located placeholder atom is relabeled with the row's extracted group.
C5_EveryLocatedAtomRelabeled ==
  AfterCall =>
    \A i \in Templates :
      AllRowsSubstitute(i) =>
        LET content == figures[i].table.content
        IN  /\ AppendedInRowOrder(i)
            /\ \A k \in 1..Len(content.rows) :
                 \A g \in 1..Len(sent_graphs[i][k]) :
                   LET graph == sent_graphs[i][k][g]
                   IN  \A a \in 1..Len(graph.chartok_coords.symbols) :
                         \A c \in HeaderColumns(content, DrawnLabel(i, graph.image, a)) :
                           /\ ExpectedGroup(content.rows[k][c].text) # NoMatch
                           /\ graph.chartok_coords.symbols[a] =
                                ExpectedGroup(content.rows[k][c].text)

\* C5 (amended): with every row holding at least one matching alkyl-group
\* cell, N instances are appended in row order, each with the original
\* conditions followed by one record per column that is not an alkyl-group
\* column; in the instance for row k a located placeholder atom is
\* relabeled with the group extracted from the row's cell under its header when
\* that cell matches the pattern, and keeps its placeholder label when it does
\* not; every other atom keeps its label.
C5_MatchedAtomsRelabeled ==
  AfterCall =>
    \A i \in Templates :
      AllRowsSubstitute(i) =>
        LET content == figures[i].table.content
        IN  /\ AppendedInRowOrder(i)
            /\ \A k \in 1..Len(content.rows) :
                 \A g \in 1..Len(sent_graphs[i][k]) :
                   LET graph == sent_graphs[i][k][g]
                   IN  \A a \in 1..Len(graph.chartok_coords.symbols) :
                         LET drawn == DrawnLabel(i, graph.image, a)
                             new == graph.chartok_coords.symbols[a]
                             cols == HeaderColumns(content, drawn)
                         IN  /\ cols = {} => new = drawn
                             /\ \A c \in cols :
                                  new = IF ExpectedGroup(content.rows[k][c].text) # NoMatch
                                        THEN ExpectedGroup(content.rows[k][c].text)
                                        ELSE drawn

\* a row with one cell matching and one not: one atom relabeled, one kept
C5_Witness ==
  /\ AfterCall
  /\ \E i \in Templates :
       /\ AllRowsSubstitute(i)
       /\ Len(results[i].reactions) > 2
       /\ \E k \in 1..Len(figures[i].table.content.rows) :
            \E g \in 1..Len(sent_graphs[i][k]) :
              \E a, b \in 1..Len(sent_graphs[i][k][g].chartok_coords.symbols) :
                LET graph == sent_graphs[i][k][g]
                IN  /\ HeaderColumns(figures[i].table.content,
                                     DrawnLabel(i, graph.image, a)) # {}
                    /\ graph.chartok_coords.symbols[a] # DrawnLabel(i, graph.image, a)
                    /\ HeaderColumns(figures[i].table.content,
                                     DrawnLabel(i, graph.image, b)) # {}
                    /\ graph.chartok_coords.symbols[b] = DrawnLabel(i, graph.image, b)

\* the rows the specification takes to yield a substitution: a cell reading
\* "unsubstituted" is taken not to match
ClaimedSubstituting(content) ==
  {k \in 1..Len(content.rows) :
     \E c \in AlkylColumns(content) :
       /\ ExpectedGroup(content.rows[k][c].text) # NoMatch
       /\ content.rows[k][c].text # S_Unsubstituted}

\* C7 (as claimed): a row whose alkyl-group cell reads "unsubstituted" yields no
\* instance, and its other column values are recorded as a condition list.
C7_UnsubstitutedYieldsNoInstance ==
  AfterCall =>
    \A i \in Templates :
      Expanded(i) =>
        LET content == figures[i].table.content
        IN  Len(results[i].reactions) =
              Len(pre_results[i].reactions) + Cardinality(ClaimedSubstituting(content))

\* C7 (amended): a row none of whose alkyl-group cells matches the pattern (such
\* as "n.d." or an empty cell) yields no instance, and its other column values
\* are recorded as one condition list in the original's conditions; a row whose
\* alkyl-group cell reads "unsubstituted" matches and yields an instance.
C7_NonMatchingCellYieldsNoInstance ==
  AfterCall =>
    \A i \in Templates :
      Expanded(i) =>
        LET content == figures[i].table.content
            other == OtherRows(content)
            subst == SubstitutingRows(content)
            before == Len(pre_results[i].reactions)
        IN  /\ Len(results[i].reactions) = before + Len(subst)
            /\ \A m \in 1..Len(subst) :
                 results[i].reactions[before + m].conditions =
                   OriginalBefore(i).conditions \o RowRecordsOf(content, subst[m])
            /\ Len(OriginalAfter(i).conditions) = 1 + Len(other)
            /\ \A n \in 1..Len(other) :
                 OriginalAfter(i).conditions[1 + n] =
                   [list |-> OriginalBefore(i).conditions
                               \o RowRecordsOf(content, other[n])]

\* a table with a non-matching row and an "unsubstituted" row
C7_Witness ==
  /\ AfterCall
  /\ \E i \in Templates :
       /\ Expanded(i)
       /\ Len(OtherRows(figures[i].table.content)) > 0
       /\ \E k \in 1..Len(figures[i].table.content.rows) :
            /\ RowSubstitutes(figures[i].table.content, k)
            /\ \A c \in AlkylColumns(figures[i].table.content) :
                 figures[i].table.content.rows[k][c].text = S_Unsubstituted
       /\ Len(results[i].reactions) = Len(pre_results[i].reactions) + 1

\* ------------------------------------------------------------- clean_corefs
Str_3a == <<"3", "a">>
Str_3b == <<"3", "b">>
Str_1a == <<"1", "a">>
Str_1b == <<"1", "b">>

\* C8 (as claimed): the texts "3a, R = Cl" and "3b, R = Br" parse to the map
\* that sends each label to the value on the right of the equals sign.
C8_ScenarioB ==
  pc = "done" =>
    \A i \in 1..Len(coref_results) :
      coref_results[i] = K_Usable =>
        coref_parsed[i].coref_smiles =
          (Str_3a :> <<"C", "l">>) @@ (Str_3b :> <<"B", "r">>)

\* C8 (amended): the parser sends each label to the token that follows it (after
\* an optional comma or colon and spaces): "3a, R = Cl" and "3b, R = Br" parse
\* to {"3a": "R", "3b": "R"}; every match in a text is captured, "1a: Me 1b Et"
\* parsing to {"1a": "Me", "1b": "Et"}.
C8_LabelToFollowingToken ==
  pc = "done" =>
    \A i \in 1..Len(coref_results) :
      /\ coref_results[i] = K_Usable =>
           coref_parsed[i].coref_smiles = (Str_3a :> <<"R">>) @@ (Str_3b :> <<"R">>)
      /\ coref_results[i] = K_Multi =>
           coref_parsed[i].coref_smiles =
             (Str_1a :> <<"M", "e">>) @@ (Str_1b :> <<"E", "t">>)

C8_Witness ==
  /\ pc = "done"
  /\ \E i, j \in 1..Len(coref_results) :
       /\ coref_results[i] = K_Usable
       /\ Cardinality(DOMAIN coref_parsed[i].coref_smiles) = 2
       /\ coref_results[j] = K_Multi
       /\ Cardinality(DOMAIN coref_parsed[j].coref_smiles) = 2

\* ----------------------------------------------------------- a second run
\* C9 (as claimed): a second process_tables call over the same template and
\* table appends no instance.
C9_SecondRunAddsNothing ==
  (runs = 2 /\ pc # "raised") =>
    \A i \in Templates :
      Len(results[i].reactions) = Len(pre_results[i].reactions)

\* C9 (amended): a second process_tables call over the same template and table
\* appends one further instance per row that yields a substitution: a template
\* that started with k >= 1 instances holds k + N of them after the first call
\* and k + 2N after the second (1 + N and 1 + 2N for a single detected
\* reaction); a template without any reaction stays empty.
C9_SecondRunAppendsAgain ==
  (runs = 2 /\ pc # "raised") =>
    \A i \in Templates :
      LET n == IF HasContent(figures[i])
               THEN NumSubstituting(figures[i].table.content) ELSE 0
          before == Len(pre_results[i].reactions)
      IN  IF before = 0 THEN Len(results[i].reactions) = 0
          ELSE /\ before >= 1 + n
               /\ Len(results[i].reactions) = before + n

C9_Witness ==
  /\ runs = 2
  /\ pc # "raised"
  /\ \E i \in Templates :
       Len(results[i].reactions) > Len(pre_results[i].reactions)

\* --------------------------------------------------------- system cleanup
\* C11: after a cleanup with force=true, task_status holds no task that was
\* submitted (registered by submit_task) before the call.
C11_ForceRemovesEveryTask ==
  (cleanup_log.calls > 0 /\ cleanup_log.force) =>
    \A id \in cleanup_log.before : id \notin DOMAIN task_status

\* ------------------------------------------------------- backout, matching
\* C12: backout emits a reconciled instance only when some wildcard-free
\* candidate's product contains the skeleton of a wildcard-bearing instance's
\* product (hasSubstructure(C.product, skeleton(P.product))); with no such
\* candidate nothing is emitted.
C12_EmitsOnlyWhenCandidateContainsSkeleton ==
  pc = "done" =>
    (NumEmitted > 0 =>
       \E i, j \in Templates :
         \E p \in 1..Len(results[i].reactions) :
           \E c \in 1..Len(results[j].reactions) :
             /\ IsWildcardProduct(results[i].reactions[p])
             /\ SpecifiedMatch(match_oracle, results[i].reactions[p],
                               results[j].reactions[c]))

\* ------------------------------------------------- backout, what is emitted
\* the reconciled instances of the output, in emission order
EmittedInstances ==
  SubSeq(final_results[Len(results)].reactions, NumConcrete(Len(results)) + 1,
         Len(final_results[Len(results)].reactions))

\* the (template, instance) positions of the wildcard-bearing instances and of
\* the wildcard-free candidates of the input
Positions ==
  UNION {{<<i, r>> : r \in 1..Len(results[i].reactions)} : i \in Templates}
InstanceAt(ip) == results[ip[1]].reactions[ip[2]]
WildcardPositions == {ip \in Positions : IsWildcardProduct(InstanceAt(ip))}
CandidatePositions == {jc \in Positions : IsCandidate(InstanceAt(jc))}

\* C13: every reconciled instance has the products of a wildcard-free candidate
\* and the conditions of the wildcard-bearing instance it was emitted for.
C13_ProductsOfCandidate ==
  pc = "done" =>
    \A k \in 1..Len(EmittedInstances) :
      \E ip \in WildcardPositions :
        \E jc \in CandidatePositions :
          /\ EmittedInstances[k].products = InstanceAt(jc).products
          /\ "conditions" \in DOMAIN EmittedInstances[k]
          /\ EmittedInstances[k].conditions = InstanceAt(ip).conditions

\* ------------------------------------------------ backout, coreferences
\* the candidates the reconciler's test answers True for (lines 530-537)
MatchingCandidates(ip) ==
  {jc \in CandidatePositions :
     ProductsMatch(match_oracle, InstanceAt(ip).products[1].smiles,
                   InstanceAt(jc).products[1].smiles)}

\* the label the coreference record of figure i pairs with the molecule whose
\* structure string is smiles: the record pairs bboxes[m] with the identifier
\* bboxes[t], and the identifier's text parses to a label (NoMatch otherwise)
PairedLabels(i, smiles) ==
  IF i > Len(coref_results) \/ "corefs" \notin DOMAIN coref_results[i] THEN {}
  ELSE LET rec == coref_results[i]
       IN  {label \in UNION {DOMAIN CorefFindIter(rec.bboxes[pair[2]].text[1], 1, EmptyDict) :
                               pair \in {rec.corefs[n] : n \in 1..Len(rec.corefs)}} :
              \E n \in 1..Len(rec.corefs) :
                \E b \in 1..Len(rec.mol_bboxes) :
                  /\ rec.mol_bboxes[b].bbox = rec.bboxes[rec.corefs[n][1]].bbox
                  /\ rec.mol_bboxes[b].smiles = smiles
                  /\ label \in DOMAIN CorefFindIter(rec.bboxes[rec.corefs[n][2]].text[1],
                                                    1, EmptyDict)}

\* C14: in a reconciled instance for P, a reactant whose structure string
\* belongs to a molecule the coreference record pairs with a labelled
\* identifier is replaced by that label; every other reactant is kept, and the
\* list keeps P's length and order.  Stated for the inputs with one
\* wildcard-bearing instance, so that every emitted instance is P's.
C14_ReactantsRelabeled ==
  (pc = "done" /\ Cardinality(WildcardPositions) = 1) =>
    \A ip \in WildcardPositions :
      \A k \in 1..Len(EmittedInstances) :
        LET P == InstanceAt(ip)
            e == EmittedInstances[k]
        IN  /\ Len(e.reactants) = Len(P.reactants)
            /\ \A r \in 1..Len(P.reactants) :
                 LET labels == IF "smiles" \in DOMAIN P.reactants[r]
                               THEN PairedLabels(ip[1], P.reactants[r].smiles)
                               ELSE {}
                 IN  IF labels = {} THEN e.reactants[r] = P.reactants[r]
                     ELSE \E label \in labels : e.reactants[r] = [smiles |-> label]

\* C15 (as claimed): a wildcard-bearing P of a figure without a usable
\* coreference record, with a matching candidate, still yields a reconciled
\* instance, its reactants P's unchanged.
C15_AbsentCorefStillReconciles ==
  pc = "done" =>
    \A ip \in WildcardPositions :
      (IsNone(coref_parsed[ip[1]]) /\ MatchingCandidates(ip) # {}) =>
        \E k \in 1..Len(EmittedInstances) :
          EmittedInstances[k].reactants = InstanceAt(ip).reactants

\* C15 (amended): backout skips a figure without a usable coreference record:
\* when every wildcard-bearing instance belongs to such a figure, nothing is
\* reconciled, matching candidates or not, and no error is raised; the output
\* holds the wildcard-free instances of the input and nothing else.
C15_AbsentCorefSkipsFigure ==
  pc = "done" =>
    ((\A ip \in WildcardPositions : IsNone(coref_parsed[ip[1]])) =>
       /\ EmittedInstances = <<>>
       /\ \A i \in Templates :
            final_results[i].reactions = SelectSeq(results[i].reactions, IsConcreteProduct))

C15_Witness ==
  /\ pc = "done"
  /\ \E ip \in WildcardPositions :
       /\ IsNone(coref_parsed[ip[1]])
       /\ MatchingCandidates(ip) # {}
  /\ \A ip \in WildcardPositions : IsNone(coref_parsed[ip[1]])
  /\ EmittedInstances = <<>>

\* ------------------------------------------- process_tables, no substitution
\* a table none of whose rows yields a substitution, applied by the last call
NoRowSubstitutes(i) ==
  Expanded(i) /\ NumSubstituting(figures[i].table.content) = 0

\* the extended condition list of row k: the original conditions followed by
\* the row's column records
ExtendedConditions(i, k) ==
  [list |-> OriginalBefore(i).conditions \o RowRecordsOf(figures[i].table.content, k)]

\* C16 (as claimed): when no row of a table with N rows yields a substitution,
\* no instance is appended and the original's conditions become a list of
\* exactly N condition lists, the k-th being the original conditions followed
\* by row k's column records.
C16_ExactlyOneListPerRow ==
  AfterCall =>
    \A i \in Templates :
      NoRowSubstitutes(i) =>
        /\ Len(results[i].reactions) = Len(pre_results[i].reactions)
        /\ OriginalAfter(i).conditions =
             [k \in 1..Len(figures[i].table.content.rows) |-> ExtendedConditions(i, k)]

\* C16 (amended): when no row of a table with N rows yields a substitution, no
\* instance is appended, reactants and products stay as they were, and the
\* original's conditions become a list of exactly N + 1 condition lists: first
\* the former condition list itself, then one list per row in row order, the
\* list for row k being the original conditions followed by row k's column
\* records.
C16_OriginalListThenOnePerRow ==
  AfterCall =>
    \A i \in Templates :
      NoRowSubstitutes(i) =>
        LET n == Len(figures[i].table.content.rows)
        IN  /\ results[i].reactions =
                 [pre_results[i].reactions EXCEPT ![1].conditions = OriginalAfter(i).conditions]
            /\ Len(OriginalAfter(i).conditions) = n + 1
            /\ OriginalAfter(i).conditions[1] = [list |-> OriginalBefore(i).conditions]
            /\ \A k \in 1..n : OriginalAfter(i).conditions[k + 1] = ExtendedConditions(i, k)

\* a table with two rows, neither substituting, applied to a reaction that has
\* conditions
C16_Witness ==
  /\ AfterCall
  /\ \E i \in Templates :
       /\ NoRowSubstitutes(i)
       /\ Len(figures[i].table.content.rows) = 2
       /\ OriginalBefore(i).conditions # <<>>
       /\ Len(OriginalAfter(i).conditions) = 3
       /\ Len(results[i].reactions) = Len(pre_results[i].reactions)

\* ------------------------------------- get_replaced_reaction, its inputs
\* the instance get_replaced_reaction returned for row k of figure i
ReturnedFor(i, k) ==
  get_replaced_reaction(OriginalBefore(i), PreGraphs(i), PreLocs(i), RowMappings(i, k))

\* C17: get_replaced_reaction never mutates its inputs.  For every row of a
\* table the last call applied, the graphs and orig_reaction are after the call
\* of line 153 what they were before it; so every row is relabeled from the
\* same template graphs, and after the whole table the original instance still
\* has every reactant and product entity, structure strings included, as before
\* (its conditions are rewritten by process_tables itself, lines 163-164).
C17_InputsNotMutated ==
  AfterCall =>
    \A i \in Templates :
      Expanded(i) =>
        /\ \A k \in 1..Len(figures[i].table.content.rows) :
             /\ GraphsAfterRelabel(PreGraphs(i), PreLocs(i), RowMappings(i, k)) = PreGraphs(i)
             /\ OrigAfterWrite(OriginalBefore(i), sent_graphs[i][k], 1) = OriginalBefore(i)
             /\ sent_graphs[i][k] = GraphCopy(PreGraphs(i), PreLocs(i), RowMappings(i, k))
        /\ [OriginalAfter(i) EXCEPT !.conditions = OriginalBefore(i).conditions]
             = OriginalBefore(i)

\* two rows with different groups were applied: the returned instances differ
\* from the original and from each other in a structure string, and a graph sent
\* for the second row differs from the template's
C17_Witness ==
  /\ AfterCall
  /\ \E i \in Templates :
       /\ Expanded(i)
       /\ \E k, m \in 1..Len(figures[i].table.content.rows) :
            /\ k < m
            /\ ReturnedFor(i, k).reactants # OriginalBefore(i).reactants
            /\ ReturnedFor(i, m).reactants # ReturnedFor(i, k).reactants
            /\ sent_graphs[i][m] # PreGraphs(i)
       /\ OriginalAfter(i).reactants = OriginalBefore(i).reactants

\* ------------------------------- get_replaced_reaction, what it returns
\* the graphs of row k of figure i that belong to the entity at (key, idx)
GraphsOfEntity(i, k, key, idx) ==
  {g \in 1..Len(sent_graphs[i][k]) : sent_graphs[i][k][g].key = <<key, idx>>}

\* graph g had at least one atom relabeled for row k
Relabeled(i, k, g) ==
  sent_graphs[i][k][g].chartok_coords.symbols # PreGraphs(i)[g].chartok_coords.symbols

KeySet == {ReactionKeys[n] : n \in 1..Len(ReactionKeys)}

SameShape(ret, orig) ==
  /\ DOMAIN ret = DOMAIN orig
  /\ \A key \in KeySet : Len(ret[key]) = Len(orig[key])

\* C18 (as claimed): in the returned instance only the molecules whose graph
\* had a relabeled atom get a re-derived structure string; every other entity
\* is the template's, and the three lists keep their lengths and order.
C18_OnlyRelabeledRederived ==
  AfterCall =>
    \A i \in Templates :
      Expanded(i) =>
        \A k \in 1..Len(figures[i].table.content.rows) :
          LET ret == ReturnedFor(i, k)
              orig == OriginalBefore(i)
          IN  /\ SameShape(ret, orig)
              /\ \A key \in KeySet : \A idx \in 1..Len(orig[key]) :
                   (\A g \in GraphsOfEntity(i, k, key, idx) : ~Relabeled(i, k, g))
                     => ret[key][idx] = orig[key][idx]

\* C18 (amended): the structure string is re-derived for every top-level
\* molecule entity, relabeled or not: the molecule carries the string the
\* service returns for its graph and keeps its other fields; every entity that
\* is not a top-level molecule is the template's; reactants, conditions and
\* products keep the template's lengths and order.
C18_EveryMoleculeRederived ==
  AfterCall =>
    \A i \in Templates :
      Expanded(i) =>
        \A k \in 1..Len(figures[i].table.content.rows) :
          LET ret == ReturnedFor(i, k)
              orig == OriginalBefore(i)
          IN  /\ SameShape(ret, orig)
              /\ \A key \in KeySet : \A idx \in 1..Len(orig[key]) :
                   LET entity == orig[key][idx]
                       gs == GraphsOfEntity(i, k, key, idx)
                   IN  IF ~IsList(entity) /\ entity.category = MolCat
                       THEN /\ Cardinality(gs) = 1
                            /\ \A g \in gs :
                                 ret[key][idx] =
                                   SetField(entity, "smiles",
                                            convert_graph_to_output(sent_graphs[i][k][g]).smiles)
                       ELSE gs = {} /\ ret[key][idx] = entity

\* a row for which a molecule without any relabeled atom comes back with a
\* structure string that is not the template's, next to a condition entity
\* that comes back as it was
C18_Witness ==
  /\ AfterCall
  /\ \E i \in Templates :
       /\ Expanded(i)
       /\ \E k \in 1..Len(figures[i].table.content.rows) :
            /\ \E g \in 1..Len(sent_graphs[i][k]) :
                 LET key == sent_graphs[i][k][g].key
                 IN  /\ ~Relabeled(i, k, g)
                     /\ ReturnedFor(i, k)[key[1]][key[2]].smiles
                          # OriginalBefore(i)[key[1]][key[2]].smiles
            /\ OriginalBefore(i).conditions # <<>>
            /\ ReturnedFor(i, k).conditions = OriginalBefore(i).conditions

\* ------------------------------------------- the invalid-structure sentinel
\* the instances the last call appended to template i
AppendedBy(i) ==
  SubSeq(results[i].reactions, Len(pre_results[i].reactions) + 1,
         Len(results[i].reactions))

\* C19: a relabeled molecule for which the service returns the
\* invalid-structure sentinel is dropped from the produced instance: the
\* instance appended for the row has fewer entities under the molecule's key
\* than the template, and none of them carries the sentinel of that graph.
C19_InvalidMoleculeDropped ==
  AfterCall =>
    \A i \in Templates :
      Expanded(i) =>
        LET subst == SubstitutingRows(figures[i].table.content)
        IN  \A m \in 1..Len(subst) :
              \A g \in 1..Len(sent_graphs[i][subst[m]]) :
                LET graph == sent_graphs[i][subst[m]][g]
                    key == graph.key[1]
                IN  (/\ Relabeled(i, subst[m], g)
                     /\ convert_graph_to_output(graph).smiles = InvalidSmiles)
                      => /\ Len(AppendedBy(i)[m][key]) < Len(OriginalBefore(i)[key])
                         /\ \A idx \in 1..Len(AppendedBy(i)[m][key]) :
                              AppendedBy(i)[m][key][idx].smiles # InvalidSmiles

\* ------------------------------------------------------ the R-group locators
\* the candidate symbols: the headers of the alkyl-group columns of a table,
\* the names seen in the identifier texts of a coreference record
AlkylHeaders(content) == {content.columns[c].text : c \in AlkylColumns(content)}
NamesOf(i) == SeenNames(BboxesRGroups(coref_results[i].bboxes, 1, <<>>))

\* replace_rgroups_in_figure has just expanded template i
Replaced(i) ==
  /\ pc = "replaced"
  /\ i <= Len(coref_results)
  /\ NamesOf(i) # {}
  /\ Len(pre_results[i].reactions) > 0

\* the entries of the locator of lines 104-110 for figure i
CorefLocs(i) == relevant_locs_in_figure(PreGraphs(i), NamesOf(i))

\* a label without its bracket decoration
Undecorated(label) == IF IsBracketed(label) THEN StripEnds(label) ELSE label

\* (symbol, atomIndex), in ascending atom index, for the atoms whose undecorated
\* label is a candidate
UndecoratedLocs(symbols, candidates) ==
  SelectSeq([j \in 1..Len(symbols) |-> <<Undecorated(symbols[j]), j>>],
            LAMBDA e : e[1] \in candidates)

\* ... for the atoms whose label is "[" candidate "]"
BracketedLocs(symbols, candidates) ==
  SelectSeq([j \in 1..Len(symbols) |-> <<StripEnds(symbols[j]), j>>],
            LAMBDA e : \E c \in candidates : symbols[e[2]] = <<"[">> \o c \o <<"]">>)

\* ... for the atoms whose label without its first and last character is a
\* candidate
StrippedLocs(symbols, candidates) ==
  SelectSeq([j \in 1..Len(symbols) |-> <<StripEnds(symbols[j]), j>>],
            LAMBDA e : e[1] \in candidates)

\* C20 (as claimed): both locators return, for every graph index, the atoms
\* whose label stripped of its bracket decoration equals a candidate symbol, in
\* ascending atom index: a bare symbol matches, a symbol between two other
\* characters does not.
C20_UndecoratedLabelEqualsSymbol ==
  \A i \in Templates :
    /\ (AfterCall /\ Expanded(i)) =>
         /\ Len(PreLocs(i)) = Len(PreGraphs(i))
         /\ \A g \in 1..Len(PreGraphs(i)) :
              PreLocs(i)[g] =
                UndecoratedLocs(OldSymbols(i, g), AlkylHeaders(figures[i].table.content))
    /\ Replaced(i) =>
         /\ Len(CorefLocs(i)) = Len(PreGraphs(i))
         /\ \A g \in 1..Len(PreGraphs(i)) :
              CorefLocs(i)[g] = UndecoratedLocs(OldSymbols(i, g), NamesOf(i))

\* C20 (amended): both locators return an entry for every graph index, the
\* (symbol, atomIndex) pairs in ascending atom index, empty when no atom
\* matches.  find_relevant_groups takes the atoms whose label is exactly
\* "[" header "]" for an alkyl-group header; the locator of
\* replace_rgroups_in_figure takes the atoms whose label without its first and
\* last character, whatever they are, is a name seen, and these are the atoms
\* the call relabels.  In neither does a label equal to the bare symbol match.
C20_LocatorsMatchDecoratedLabels ==
  \A i \in Templates :
    /\ (AfterCall /\ Expanded(i)) =>
         /\ Len(PreLocs(i)) = Len(PreGraphs(i))
         /\ \A g \in 1..Len(PreGraphs(i)) :
              PreLocs(i)[g] =
                BracketedLocs(OldSymbols(i, g), AlkylHeaders(figures[i].table.content))
    /\ Replaced(i) =>
         /\ Len(CorefLocs(i)) = Len(PreGraphs(i))
         /\ \A g \in 1..Len(PreGraphs(i)) :
              /\ CorefLocs(i)[g] = StrippedLocs(OldSymbols(i, g), NamesOf(i))
              /\ \A n \in 1..Len(sent_graphs[i]) :
                   \A a \in 1..Len(OldSymbols(i, g)) :
                     (sent_graphs[i][n][g].chartok_coords.symbols[a] # OldSymbols(i, g)[a])
                       => \E e \in 1..Len(CorefLocs(i)[g]) : CorefLocs(i)[g][e][2] = a

\* replace_rgroups_in_figure has expanded a template whose graphs hold the
\* label "(R)", located and relabeled, and the bare label "R", not located
C20_Witness ==
  \E i \in Templates :
    /\ Replaced(i)
    /\ \E g, h \in 1..Len(PreGraphs(i)) :
         /\ \E a \in 1..Len(OldSymbols(i, g)) :
              /\ OldSymbols(i, g)[a] = <<"(", "R", ")">>
              /\ CorefLocs(i)[g] = << <<S_R, a>> >>
              /\ sent_graphs[i][1][g].chartok_coords.symbols[a] # OldSymbols(i, g)[a]
         /\ \E b \in 1..Len(OldSymbols(i, h)) :
              /\ OldSymbols(i, h)[b] = S_R
              /\ CorefLocs(i)[h] = <<>>
              /\ sent_graphs[i][1][h].chartok_coords.symbols[b] = S_R

\* ----------------------------------- process_tables, the number of reactions
\* the conditions of the first reaction hold a list nested in a list: the shape
\* two earlier expansions of a table leave behind
NestedTwice(i) ==
  \E e \in 1..Len(OriginalBefore(i).conditions) :
    LET entity == OriginalBefore(i).conditions[e]
    IN  IsList(entity) /\ \E x \in 1..Len(entity.list) : IsList(entity.list[x])

\* the instances appended for template i are the ones derived from its first
\* reaction, one per substituting row, in row order
DerivedFromFirst(i) ==
  LET subst == SubstitutingRows(figures[i].table.content)
  IN  /\ Len(AppendedBy(i)) = Len(subst)
      /\ \A m \in 1..Len(subst) :
           /\ AppendedBy(i)[m].reactants = ReturnedFor(i, subst[m]).reactants
           /\ AppendedBy(i)[m].products = ReturnedFor(i, subst[m]).products

SquareOverAtoms(graph) ==
  LET n == Len(graph.chartok_coords.symbols)
  IN  /\ Len(graph.chartok_coords.coords) = n
      /\ Len(graph.edges) = n
      /\ \A a \in 1..n : Len(graph.edges[a]) = n

SymmetricEdges(graph) ==
  \A a, b \in 1..Len(graph.edges) : graph.edges[a][b] = graph.edges[b][a]

ExpandedAlone(i) == process_tables(<<figures[i]>>, <<pre_results[i]>>)[1]

ReverseOf(seq) == [n \in 1..Len(seq) |-> seq[Len(seq) + 1 - n]]

\* what the last call would have made of the templates had they been listed
\* in the opposite order, put back in the order of the list
ExpandedReversed ==
  ReverseOf(process_tables(ReverseOf(figures), ReverseOf(pre_results)))

TaskIds == 1..MaxTasks
Finished(id) ==
  id \in DOMAIN task_status /\ task_status[id].status \in {"completed", "failed"}

\* C25: every task submit_task has accepted (its entry registered, its id
\* returned) eventually has the status 'completed' or 'failed', under fair
\* scheduling of the worker threads and with every extraction returning or
\* raising.
C25_AcceptedEventuallyFinished ==
  \A id \in TaskIds : (id \in DOMAIN task_status) ~> Finished(id)

\* C26: a worker that has taken a task off the queue finds the task's entry in
\* task_status, and no worker thread has ended: max_concurrent_tasks workers
\* stay alive.
C26_EntryExistsAtDequeue ==
  \A w \in Workers :
    /\ workers[w].pc = "got" => workers[w].task \in DOMAIN task_status
    /\ workers[w].pc # "dead"

\* ---------------------------------------------------------- batch uploads
\* the ids a batch can be given
PossibleBatchIds == {0 - n : n \in 1..MaxBatches}

Subtasks(b) == DOMAIN task_status[b].subtasks

\* C27: a registered batch all of whose submitted subtasks have finished
\* eventually has the status 'completed', whenever the subtasks finished and
\* whether or not some uploaded files were skipped.
C27_BatchEventuallyCompleted ==
  \A b \in PossibleBatchIds :
    (b \in DOMAIN task_status /\ \A t \in Subtasks(b) : Finished(t))
      ~> (b \in DOMAIN task_status /\ task_status[b].status = "completed")

\* C28: a batch with the status 'completed' has every subtask 'completed' or
\* 'failed' and completed_files + failed_files = total_files; as long as a
\* subtask is 'queued' or 'processing' the batch is not 'completed', and the
\* batch results are answered (200) for finished batches only.
C28_CompletedBatchIsFinished ==
  \A b \in BatchIds :
    /\ task_status[b].status = "completed" =>
         /\ \A t \in Subtasks(b) : Finished(t)
         /\ task_status[b].completed_files + task_status[b].failed_files
              = task_status[b].total_files
    /\ (\E t \in Subtasks(b) :
          t \in DOMAIN task_status /\ task_status[t].status \in {"queued", "processing"})
         => task_status[b].status # "completed"
    /\ get_batch_results(b).code = 200 => \A t \in Subtasks(b) : Finished(t)

\* a batch of two files is 'completed' with one subtask completed and the other
\* failed, and its results are served with the one result file
C28_Witness ==
  \E b \in BatchIds :
    /\ task_status[b].status = "completed"
    /\ task_status[b].total_files = 2
    /\ task_status[b].completed_files = 1
    /\ task_status[b].failed_files = 1
    /\ get_batch_results(b).code = 200
    /\ Cardinality(get_batch_results(b).results) = 1

\* ------------------------------------------------------ the result files
\* an id no task was given
UnknownId == MaxTasks + 1

\* C29: a task is 'completed' only with its result_file field set and the file
\* written; the result and download endpoints send a file only for a
\* 'completed' task, answer 400 for a known task in any other status and 404
\* for an unknown id.
C29_CompletedOnlyWithResultFile ==
  /\ \A id \in DOMAIN task_status :
       /\ task_status[id].status = "completed" =>
            /\ "result_file" \in DOMAIN task_status[id]
            /\ task_status[id].result_file \in result_files
       /\ task_status[id].status # "completed" =>
            /\ get_results(id).code = 400
            /\ download_results(id).code = 400
  /\ \A id \in TaskIds \cup {UnknownId} :
       /\ get_results(id).code = 200 =>
            /\ id \in DOMAIN task_status
            /\ task_status[id].status = "completed"
            /\ get_results(id).file \in result_files
       /\ download_results(id) = get_results(id)
       /\ id \notin DOMAIN task_status => get_results(id).code = 404

\* one task is 'completed' and its file is sent, another is still being
\* extracted, with its result file already written, and is answered 400
C29_Witness ==
  \E id, other \in DOMAIN task_status :
    /\ task_status[id].status = "completed"
    /\ get_results(id) = [code |-> 200, file |-> task_status[id].result_file]
    /\ task_status[other].status = "processing"
    /\ other \in result_files
    /\ download_results(other).code = 400
    /\ get_results(UnknownId).code = 404

\* ---------------------------------------------------------- the full queue
\* a submit_task call that found the queue full: an id drawn, nothing enqueued
Rejected ==
  /\ request.kind = "none"
  /\ next_id' = next_id + 1
  /\ request'.kind = "none"

\* C30: a submission rejected because the queue is full leaves the service as
\* it was: no status entry added, the queue unchanged and never longer than
\* task_queue_size, and no upload file of the rejected task left behind.
C30_RejectedLeavesNoTrace ==
  [][/\ Len(task_queue') <= task_queue_size
     /\ Rejected =>
          /\ Len(task_queue) = task_queue_size
          /\ task_status' = task_status
          /\ task_queue' = task_queue
          /\ uploads' = uploads]_vars

====
